---- MODULE Spec2Model ----
(***************************************************************************)
(* Rawst: the request router (ApiAdapter), the per-entity handler registry *)
(* (ApiHandlerManager and the crud/custom register_* functions), the       *)
(* datasource behind the handlers and the Rocket transport layer.          *)
(*                                                                         *)
(* Strings are sequences of one-character strings, so that to_lowercase,   *)
(* split, contains and starts_with are computed as the code computes them. *)
(***************************************************************************)
EXTENDS Integers, Sequences, FiniteSets, TLC

VARIABLES router, db, dsUp, last, inflight, server, entity_mappings,
          SERVER_RUNNING, SERVER_ERROR, REQUEST_COUNT, threads, commands

\* the statics of the desktop shell (src-tauri), the server threads it has
\* spawned and its commands in progress
tauri_vars == <<SERVER_RUNNING, SERVER_ERROR, REQUEST_COUNT, threads, commands>>

vars == <<router, db, dsUp, last, inflight, server, entity_mappings, tauri_vars>>

---------------------------------------------------------------------------
(* Bounds *)

\* record ids are 1..MaxId
MaxId == 2

\* the desktop shell runs at most MaxCommands commands at a time, spawns at
\* most MaxThreads server threads and counts at most MaxRequests test requests
MaxCommands == 2

MaxThreads == 3

MaxRequests == 1

---------------------------------------------------------------------------
(* Option<T> *)

None == [tag |-> "None"]

Some(x) == [tag |-> "Some", val |-> x]

---------------------------------------------------------------------------
(* str / String operations *)

Uppers == <<"A","B","C","D","E","F","G","H","I","J","K","L","M",
            "N","O","P","Q","R","S","T","U","V","W","X","Y","Z">>

Lowers == <<"a","b","c","d","e","f","g","h","i","j","k","l","m",
            "n","o","p","q","r","s","t","u","v","w","x","y","z">>

Digits == <<"1","2","3","4","5","6","7","8","9">>

Chars ==
    {Uppers[i] : i \in 1..26} \cup {Lowers[i] : i \in 1..26}
        \cup {Digits[i] : i \in 1..9} \cup {"/", ":", " "}

\* char::to_lowercase, tabulated over the characters the model uses
LowerMap ==
    [c \in Chars |-> IF \E i \in 1..26 : Uppers[i] = c
                     THEN Lowers[CHOOSE i \in 1..26 : Uppers[i] = c]
                     ELSE c]

ToLowerChar(c) == LowerMap[c]

to_lowercase(s) == [i \in 1..Len(s) |-> ToLowerChar(s[i])]

starts_with(s, p) == Len(p) <= Len(s) /\ SubSeq(s, 1, Len(p)) = p

contains(s, p) ==
    \E i \in 0..(Len(s) - Len(p)) : SubSeq(s, i + 1, i + Len(p)) = p

RECURSIVE trim_start_matches(_, _)
trim_start_matches(s, c) ==
    IF Len(s) > 0 /\ Head(s) = c THEN trim_start_matches(Tail(s), c) ELSE s

RECURSIVE trim_end_matches(_, _)
trim_end_matches(s, c) ==
    IF Len(s) > 0 /\ s[Len(s)] = c
    THEN trim_end_matches(SubSeq(s, 1, Len(s) - 1), c)
    ELSE s

\* str::trim for the white space the model uses, the blank
trim(s) == trim_end_matches(trim_start_matches(s, " "), " ")

\* s.split(c): the pieces between the separators, empty pieces included
RECURSIVE split(_, _)
split(s, c) ==
    IF \E i \in 1..Len(s) : s[i] = c
    THEN LET k == CHOOSE i \in 1..Len(s) :
                    s[i] = c /\ \A j \in 1..(i - 1) : s[j] # c
         IN  <<SubSeq(s, 1, k - 1)>> \o split(SubSeq(s, k + 1, Len(s)), c)
    ELSE <<s>>

Reverse(s) == [i \in 1..Len(s) |-> s[Len(s) + 1 - i]]

\* the string literals of the program
Slash == <<"/">>

Colon == <<":">>

S_api == <<"a","p","i">>

S_id == <<":","i","d">>

S_users == <<"u","s","e","r","s">>

S_Users == <<"U","s","e","r","s">>

S_otherprefix == <<"o","t","h","e","r","p","r","e","f","i","x">>

S_nosuch == <<"n","o","s","u","c","h">>

S_NoSuch == <<"N","o","S","u","c","h">>

S_Id == <<"I","d">>

S_orders == <<"o","r","d","e","r","s">>

S_people == <<"p","e","o","p","l","e">>

S_search == <<"s","e","a","r","c","h">>

\* format!("{:?}", method) for HttpMethod
DebugMethod(m) ==
    CASE m = "GET"    -> <<"G","E","T">>
      [] m = "POST"   -> <<"P","O","S","T">>
      [] m = "PUT"    -> <<"P","U","T">>
      [] m = "PATCH"  -> <<"P","A","T","C","H">>
      [] m = "DELETE" -> <<"D","E","L","E","T","E">>

HttpMethod == {"GET", "POST", "PUT", "PATCH", "DELETE"}

---------------------------------------------------------------------------
(* Entities (serde_json::Value payloads) and the backend table *)

Ids == 1..MaxId

Names == {"a", "b"}

\* an entity payload: {"id": i, "name": n}
Items == [id : Ids, name : Names]

\* Option<String> request bodies: absent, "", a text that is not JSON, or the
\* JSON text of an item
BodyEmpty == [kind |-> "empty"]

BodyGarbage == [kind |-> "garbage"]

BodyJson(item) == [kind |-> "json", item |-> item]

is_empty(b) == b.kind = "empty"

\* serde_json::from_str(body): Err on a text that is not JSON
from_str(b) ==
    IF b.kind = "json" THEN [ok |-> TRUE, val |-> b.item] ELSE [ok |-> FALSE]

\* parts of a formatted message: literals, interpolated strings, interpolated ids
Lit(s) == [lit |-> s]

Str(s) == [str |-> s]

Num(n) == [num |-> n]

\* the message mentions the string s
Mentions(msg, s) ==
    \E i \in 1..Len(msg) : "str" \in DOMAIN msg[i] /\ contains(msg[i].str, s)

---------------------------------------------------------------------------
(* Results of handlers and of the router *)

default_headers == {<<"Content-Type", "application/json">>}

NoHeaders == {}

Single(item) == [variant |-> "Single", item |-> item]

List(items) == [variant |-> "List", items |-> items]

Json(value) == [variant |-> "Json", json |-> value]

ApiResponse(status, headers, body) ==
    [status |-> status, headers |-> headers, body |-> body]

Ok(resp) == [tag |-> "Ok", resp |-> resp]

Err(kind, msg) == [tag |-> "Err", kind |-> kind, msg |-> msg]

\* the handler panicked (unimplemented!)
Panic == [tag |-> "Panic"]

\* what a handler or the router produced: the result, the backend after it, and
\* the datasource operations it invoked, in order
Outcome(out, d, calls) == [out |-> out, db |-> d, calls |-> calls]

---------------------------------------------------------------------------
(* DataSource: the relational backend, one table per entity, keyed by the  *)
(* primary key.  up = FALSE: the connection pool cannot serve the query.   *)

RECURSIVE RowsFrom(_, _)
RowsFrom(tbl, i) ==
    IF i > MaxId THEN <<>>
    ELSE (IF tbl[i] = None THEN <<>> ELSE <<tbl[i].val>>) \o RowsFrom(tbl, i + 1)

EmptyTable == [i \in Ids |-> None]

\* get_all that reports an empty result set as an error
get_all_empty_is_error(d, up, t) ==
    IF ~up \/ RowsFrom(d[t], 1) = <<>> THEN [ok |-> FALSE, db |-> d]
    ELSE [ok |-> TRUE, val |-> RowsFrom(d[t], 1), db |-> d]

get_all(d, up, t) ==
    IF ~up THEN [ok |-> FALSE, db |-> d]
    ELSE [ok |-> TRUE, val |-> RowsFrom(d[t], 1), db |-> d]

get_by_id(d, up, t, id) ==
    IF ~up THEN [ok |-> FALSE, db |-> d]
    ELSE [ok |-> TRUE, val |-> d[t][id], db |-> d]

\* INSERT: the primary key rejects a second row with the same id
create(d, up, t, item) ==
    IF ~up \/ d[t][item.id] # None THEN [ok |-> FALSE, db |-> d]
    ELSE [ok |-> TRUE, val |-> item, db |-> [d EXCEPT ![t][item.id] = Some(item)]]

\* an update that fails when no row was affected
update_checks_rows_affected(d, up, t, id, item) ==
    IF ~up \/ d[t][id] = None THEN [ok |-> FALSE, db |-> d]
    ELSE [ok |-> TRUE, val |-> item,
          db |-> [d EXCEPT ![t][id] = Some([id |-> id, name |-> item.name])]]

\* UPDATE ... SET <non-key columns> WHERE pk = id; the rows affected are not
\* looked at and the submitted item is returned
update(d, up, t, id, item) ==
    IF ~up THEN [ok |-> FALSE, db |-> d]
    ELSE [ok |-> TRUE, val |-> item,
          db |-> IF d[t][id] = None THEN d
                 ELSE [d EXCEPT ![t][id] = Some([id |-> id, name |-> item.name])]]

\* DELETE ... WHERE pk = id; Ok(rows_affected > 0)
delete(d, up, t, id) ==
    IF ~up THEN [ok |-> FALSE, db |-> d]
    ELSE [ok |-> TRUE, val |-> (d[t][id] # None), db |-> [d EXCEPT ![t][id] = None]]

handle_datasource_error ==
    Err("EndpointGenerationError", <<Lit("Error retrieving items: "), Lit("<datasource error>")>>)

---------------------------------------------------------------------------
(* ApiRequest *)

ApiRequest(method, path, params, body) ==
    [method |-> method, path |-> path, params |-> params, body |-> body]

\* params.get("id")
ParamId(req) == req.params

---------------------------------------------------------------------------
(* The handler closures of the Handler Registry.  h.ds is the table of the *)
(* datasource the closure captured.                                        *)

create_handler(h, req, d, up) ==
    IF req.body = None \/ is_empty(req.body.val)
    THEN Outcome(Err("BadRequest", <<Lit("Request body is required")>>), d, <<>>)
    ELSE LET parsed == from_str(req.body.val) IN
         IF ~parsed.ok
         THEN Outcome(Err("BadRequest", <<Lit("Invalid request format: "), Lit("<serde error>")>>), d, <<>>)
         ELSE LET r == create(d, up, h.ds, parsed.val) IN
              IF r.ok
              THEN Outcome(Ok(ApiResponse(201, default_headers, Some(Single(r.val)))),
                           r.db, <<"create">>)
              ELSE Outcome(Err("ServerError", <<Lit("Failed to create item: "), Lit("<datasource error>")>>),
                           r.db, <<"create">>)

read_handler(h, req, d, up) ==
    IF ParamId(req) = None
    THEN Outcome(Err("ValidationError", <<Lit("ID parameter missing")>>), d, <<>>)
    ELSE LET id == ParamId(req).val
             r  == get_by_id(d, up, h.ds, id) IN
         IF ~r.ok THEN Outcome(handle_datasource_error, r.db, <<"get_by_id">>)
         ELSE IF r.val = None
         THEN Outcome(Err("EntityNotFound", <<Lit("Item with ID "), Num(id), Lit(" not found")>>),
                      r.db, <<"get_by_id">>)
         ELSE Outcome(Ok(ApiResponse(200, default_headers, Some(Single(r.val.val)))),
                      r.db, <<"get_by_id">>)

\* the update handler without the existence check
update_handler_unchecked(h, req, d, up) ==
    IF ParamId(req) = None
    THEN Outcome(Err("ValidationError", <<Lit("ID parameter missing")>>), d, <<>>)
    ELSE IF req.body = None \/ is_empty(req.body.val)
    THEN Outcome(Err("BadRequest", <<Lit("Request body is required")>>), d, <<>>)
    ELSE LET id     == ParamId(req).val
             parsed == from_str(req.body.val) IN
         IF ~parsed.ok
         THEN Outcome(Err("BadRequest", <<Lit("Invalid request format: "), Lit("<serde error>")>>), d, <<>>)
         ELSE LET u == update(d, up, h.ds, id, parsed.val) IN
              IF u.ok
              THEN Outcome(Ok(ApiResponse(200, default_headers, Some(Single(u.val)))),
                           u.db, <<"update">>)
              ELSE Outcome(handle_datasource_error, u.db, <<"update">>)

\* the update handler that looks the id up before it validates the body
update_handler_lookup_first(h, req, d, up) ==
    IF ParamId(req) = None
    THEN Outcome(Err("ValidationError", <<Lit("ID parameter missing")>>), d, <<>>)
    ELSE LET id == ParamId(req).val
             g  == get_by_id(d, up, h.ds, id) IN
         IF ~g.ok THEN Outcome(handle_datasource_error, g.db, <<"get_by_id">>)
         ELSE IF g.val = None
         THEN Outcome(Err("EntityNotFound", <<Lit("Item with ID "), Num(id), Lit(" not found")>>),
                      g.db, <<"get_by_id">>)
         ELSE IF req.body = None \/ is_empty(req.body.val)
         THEN Outcome(Err("BadRequest", <<Lit("Request body is required")>>), g.db, <<"get_by_id">>)
         ELSE LET parsed == from_str(req.body.val) IN
              IF ~parsed.ok
              THEN Outcome(Err("BadRequest", <<Lit("Invalid request format: "), Lit("<serde error>")>>),
                           g.db, <<"get_by_id">>)
              ELSE LET u == update(g.db, up, h.ds, id, parsed.val) IN
                   IF u.ok
                   THEN Outcome(Ok(ApiResponse(200, default_headers, Some(Single(u.val)))),
                                u.db, <<"get_by_id", "update">>)
                   ELSE Outcome(handle_datasource_error, u.db, <<"get_by_id", "update">>)

update_handler(h, req, d, up) ==
    IF ParamId(req) = None
    THEN Outcome(Err("ValidationError", <<Lit("ID parameter missing")>>), d, <<>>)
    ELSE IF req.body = None \/ is_empty(req.body.val)
    THEN Outcome(Err("BadRequest", <<Lit("Request body is required")>>), d, <<>>)
    ELSE LET id     == ParamId(req).val
             parsed == from_str(req.body.val) IN
         IF ~parsed.ok
         THEN Outcome(Err("BadRequest", <<Lit("Invalid request format: "), Lit("<serde error>")>>), d, <<>>)
         ELSE LET g == get_by_id(d, up, h.ds, id) IN
              IF ~g.ok THEN Outcome(handle_datasource_error, g.db, <<"get_by_id">>)
              ELSE IF g.val = None
              THEN Outcome(Err("EntityNotFound", <<Lit("Item with ID "), Num(id), Lit(" not found")>>),
                           g.db, <<"get_by_id">>)
              ELSE LET u == update(g.db, up, h.ds, id, parsed.val) IN
                   IF u.ok
                   THEN Outcome(Ok(ApiResponse(200, default_headers, Some(Single(u.val)))),
                                u.db, <<"get_by_id", "update">>)
                   ELSE Outcome(handle_datasource_error, u.db, <<"get_by_id", "update">>)

\* the update handler from datasource.update on, for a request whose
\* get_by_id returned Ok(Some(_))
update_handler_write(h, req, d, up) ==
    LET id == ParamId(req).val
        u  == update(d, up, h.ds, id, from_str(req.body.val).val) IN
    IF u.ok
    THEN Outcome(Ok(ApiResponse(200, default_headers, Some(Single(u.val)))),
                 u.db, <<"get_by_id", "update">>)
    ELSE Outcome(handle_datasource_error, u.db, <<"get_by_id", "update">>)

delete_handler(h, req, d, up) ==
    IF ParamId(req) = None
    THEN Outcome(Err("ValidationError", <<Lit("ID parameter missing")>>), d, <<>>)
    ELSE LET id == ParamId(req).val
             r  == delete(d, up, h.ds, id) IN
         IF ~r.ok THEN Outcome(handle_datasource_error, r.db, <<"delete">>)
         ELSE IF r.val
         THEN Outcome(Ok(ApiResponse(204, default_headers, None)), r.db, <<"delete">>)
         ELSE Outcome(Err("EntityNotFound", <<Lit("Item with ID "), Num(id), Lit(" not found")>>),
                      r.db, <<"delete">>)

list_handler(h, req, d, up) ==
    LET r == get_all(d, up, h.ds) IN
    IF r.ok
    THEN Outcome(Ok(ApiResponse(200, default_headers, Some(List(r.val)))), r.db, <<"get_all">>)
    ELSE Outcome(handle_datasource_error, r.db, <<"get_all">>)

\* the custom-route closure: unimplemented!() before the response is built
custom_handler(h, req, d, up) == Outcome(Panic, d, <<>>)

\* handler(request)
Invoke(h, req, d, up) ==
    CASE h.kind = "create" -> create_handler(h, req, d, up)
      [] h.kind = "read"   -> read_handler(h, req, d, up)
      [] h.kind = "update" -> update_handler(h, req, d, up)
      [] h.kind = "delete" -> delete_handler(h, req, d, up)
      [] h.kind = "list"   -> list_handler(h, req, d, up)
      [] h.kind = "custom" -> custom_handler(h, req, d, up)

---------------------------------------------------------------------------
(* HashMap<String, V>: the entries in insertion order.  The iteration order *)
(* of a HashMap is arbitrary but fixed while the map is not modified; the  *)
(* router's seed selects it.                                               *)

has(m, k) == \E i \in 1..Len(m) : m[i].key = k

get(m, k) == m[CHOOSE i \in 1..Len(m) : m[i].key = k].val

\* an insert that leaves the value of a key already present
insert_keeps_first(m, k, v) ==
    IF has(m, k) THEN m ELSE Append(m, [key |-> k, val |-> v])

\* insert overwrites the value of a key already present
insert(m, k, v) ==
    IF has(m, k)
    THEN [i \in 1..Len(m) |-> IF m[i].key = k THEN [key |-> k, val |-> v] ELSE m[i]]
    ELSE Append(m, [key |-> k, val |-> v])

keys(m) == [i \in 1..Len(m) |-> m[i].key]

Seeds == {0, 1}

iter(m, seed) == IF seed = 0 THEN m ELSE Reverse(m)

---------------------------------------------------------------------------
(* Handler Registry: register_*_endpoint and initialize_endpoints *)

Handler(kind, entity, ds) == [kind |-> kind, entity |-> entity.name, ds |-> ds.table]

register_create_endpoint(ds, entity, endpoints) ==
    LET handler == Handler("create", entity, ds) IN
    insert(insert(endpoints,
                  DebugMethod("POST") \o Colon \o entity.name, handler),
           DebugMethod("POST") \o Colon \o S_api \o Slash \o entity.name, handler)

register_read_endpoint(ds, entity, endpoints) ==
    LET handler   == Handler("read", entity, ds)
        base_path == entity.name \o Slash \o S_id IN
    insert(insert(endpoints,
                  DebugMethod("GET") \o Colon \o base_path, handler),
           DebugMethod("GET") \o Colon \o S_api \o Slash \o base_path, handler)

register_update_endpoint(ds, entity, endpoints) ==
    LET handler   == Handler("update", entity, ds)
        base_path == entity.name \o Slash \o S_id IN
    insert(insert(endpoints,
                  DebugMethod("PUT") \o Colon \o base_path, handler),
           DebugMethod("PUT") \o Colon \o S_api \o Slash \o base_path, handler)

register_delete_endpoint(ds, entity, endpoints) ==
    insert(endpoints,
           DebugMethod("DELETE") \o Colon \o entity.name \o Slash \o S_id,
           Handler("delete", entity, ds))

register_list_endpoint(ds, entity, endpoints) ==
    insert(endpoints, DebugMethod("GET") \o Colon \o entity.name,
           Handler("list", entity, ds))

\* every call allocates its own closure; `route` names the custom route the
\* closure was made for
register_custom_endpoint(ds, entity, custom_route, endpoints) ==
    insert(endpoints,
           DebugMethod(custom_route.method) \o Colon \o entity.name \o custom_route.path,
           [kind |-> "custom", entity |-> entity.name, ds |-> ds.table,
            route |-> custom_route])

RECURSIVE register_custom_routes(_, _, _, _)
register_custom_routes(ds, entity, routes, endpoints) ==
    IF routes = <<>> THEN endpoints
    ELSE register_custom_routes(ds, entity, Tail(routes),
             register_custom_endpoint(ds, entity, Head(routes), endpoints))

\* a registry that registers every CRUD endpoint whatever the flags say
initialize_endpoints_all(ds, entity) ==
    register_custom_routes(ds, entity, entity.endpoints.custom_routes,
        register_list_endpoint(ds, entity,
            register_delete_endpoint(ds, entity,
                register_update_endpoint(ds, entity,
                    register_read_endpoint(ds, entity,
                        register_create_endpoint(ds, entity, <<>>))))))

initialize_endpoints(ds, entity) ==
    LET e0 == <<>>
        e1 == IF entity.endpoints.generate_create
              THEN register_create_endpoint(ds, entity, e0) ELSE e0
        e2 == IF entity.endpoints.generate_read
              THEN register_read_endpoint(ds, entity, e1) ELSE e1
        e3 == IF entity.endpoints.generate_update
              THEN register_update_endpoint(ds, entity, e2) ELSE e2
        e4 == IF entity.endpoints.generate_delete
              THEN register_delete_endpoint(ds, entity, e3) ELSE e3
        e5 == IF entity.endpoints.generate_list
              THEN register_list_endpoint(ds, entity, e4) ELSE e4
    IN  register_custom_routes(ds, entity, entity.endpoints.custom_routes, e5)

---------------------------------------------------------------------------
(* ApiAdapter::new and entity_mapper *)

EndpointConfig(c, r, u, dl, l, custom) ==
    [generate_create |-> c, generate_read |-> r, generate_update |-> u,
     generate_delete |-> dl, generate_list |-> l, custom_routes |-> custom]

AllCrud == EndpointConfig(TRUE, TRUE, TRUE, TRUE, TRUE, <<>>)

Entity(name, endpoints) == [name |-> name, endpoints |-> endpoints]

EntityBasic(name) == [name |-> name]

\* the Entity that entity_mapper builds for a basic entity
BasicToEntity(entity_basic) == Entity(entity_basic.name, AllCrud)

EntityApi(ds, endpoints) == [datasource |-> ds, endpoints |-> endpoints]

RECURSIVE normalize_keys(_)
normalize_keys(datasources) ==
    IF datasources = <<>> THEN <<>>
    ELSE LET rest == normalize_keys(Tail(datasources)) IN
         insert(rest, to_lowercase(Head(datasources).key), Head(datasources).val)

\* the first loop: entities_advanced.  acc = [entities, processed]
RECURSIVE map_advanced(_, _, _)
map_advanced(list, datasources, acc) ==
    IF list = <<>> THEN acc
    ELSE LET entity          == Head(list)
             normalized_name == to_lowercase(entity.name)
             normalized      == normalize_keys(datasources)
             found           == has(normalized, normalized_name) \/ has(datasources, entity.name)
             datasource      == IF has(normalized, normalized_name)
                                THEN get(normalized, normalized_name)
                                ELSE get(datasources, entity.name)
         IN  IF normalized_name \notin acc.processed /\ found
             THEN map_advanced(Tail(list), datasources,
                      [entities  |-> insert(acc.entities, entity.name,
                                        EntityApi(datasource, initialize_endpoints(datasource, entity))),
                       processed |-> acc.processed \cup {entity.name}])
             ELSE map_advanced(Tail(list), datasources, acc)

\* a second loop that gives up at the first entity without a datasource
RECURSIVE map_basic_gives_up(_, _, _)
map_basic_gives_up(list, datasources, acc) ==
    IF list = <<>> THEN acc
    ELSE LET entity_basic    == Head(list)
             normalized_name == to_lowercase(entity_basic.name)
             normalized      == normalize_keys(datasources)
             found           == has(normalized, normalized_name) \/ has(datasources, entity_basic.name)
             datasource      == IF has(normalized, normalized_name)
                                THEN get(normalized, normalized_name)
                                ELSE get(datasources, entity_basic.name)
             entity          == BasicToEntity(entity_basic)
         IN  IF normalized_name \notin acc.processed /\ found
             THEN map_basic_gives_up(Tail(list), datasources,
                      [entities  |-> insert(acc.entities, normalized_name,
                                        EntityApi(datasource, initialize_endpoints(datasource, entity))),
                       processed |-> acc.processed \cup {normalized_name}])
             ELSE acc

\* the second loop: entities_basic
RECURSIVE map_basic(_, _, _)
map_basic(list, datasources, acc) ==
    IF list = <<>> THEN acc
    ELSE LET entity_basic    == Head(list)
             normalized_name == to_lowercase(entity_basic.name)
             normalized      == normalize_keys(datasources)
             found           == has(normalized, normalized_name) \/ has(datasources, entity_basic.name)
             datasource      == IF has(normalized, normalized_name)
                                THEN get(normalized, normalized_name)
                                ELSE get(datasources, entity_basic.name)
             entity          == BasicToEntity(entity_basic)
         IN  IF normalized_name \notin acc.processed /\ found
             THEN map_basic(Tail(list), datasources,
                      [entities  |-> insert(acc.entities, normalized_name,
                                        EntityApi(datasource, initialize_endpoints(datasource, entity))),
                       processed |-> acc.processed \cup {normalized_name}])
             ELSE map_basic(Tail(list), datasources, acc)

entity_mapper(config, datasources) ==
    map_basic(config.entities_basic, datasources,
        map_advanced(config.entities_advanced, datasources,
            [entities |-> <<>>, processed |-> {}])).entities

\* ApiAdapter::new; seed is the iteration order of the adapter's hash maps
ApiAdapter_new(config, datasources, seed) ==
    [config   |-> config,
     entities |-> entity_mapper(config, datasources),
     seed     |-> seed]

---------------------------------------------------------------------------
(* ApiAdapter::handle_request (the Router's dispatch) *)

\* request.path.split('/').filter(|s| !s.is_empty()).collect()
path_parts(path) == SelectSeq(split(path, "/"), LAMBDA p : p # <<>>)

\* the entity name taken from the path in the letter case of the path
extract_entity_name_keeps_case(config, parts) ==
    IF config.api_prefix # None
    THEN LET prefix == trim_end_matches(trim_start_matches(config.api_prefix.val, "/"), "/") IN
         IF parts # <<>> /\ parts[1] = prefix
         THEN IF Len(parts) < 2
              THEN [ok |-> FALSE, err |-> Err("ValidationError", <<Lit("Invalid path: missing entity name")>>)]
              ELSE [ok |-> TRUE, name |-> parts[2]]
         ELSE IF parts # <<>>
         THEN [ok |-> TRUE, name |-> parts[1]]
         ELSE [ok |-> FALSE, err |-> Err("ValidationError", <<Lit("Invalid path: empty path")>>)]
    ELSE IF parts # <<>>
    THEN [ok |-> TRUE, name |-> parts[1]]
    ELSE [ok |-> FALSE, err |-> Err("ValidationError", <<Lit("Invalid path: empty path")>>)]

\* an extraction that takes the prefix for the entity when nothing follows it
extract_entity_name_prefix_as_entity(config, parts) ==
    IF parts # <<>>
    THEN IF config.api_prefix # None /\ Len(parts) >= 2
            /\ parts[1] = trim_end_matches(trim_start_matches(config.api_prefix.val, "/"), "/")
         THEN [ok |-> TRUE, name |-> to_lowercase(parts[2])]
         ELSE [ok |-> TRUE, name |-> to_lowercase(parts[1])]
    ELSE [ok |-> FALSE, err |-> Err("ValidationError", <<Lit("Invalid path: empty path")>>)]

\* the first path segment as the entity name, whatever the prefix
extract_entity_name_first_segment(config, parts) ==
    IF parts # <<>>
    THEN [ok |-> TRUE, name |-> to_lowercase(parts[1])]
    ELSE [ok |-> FALSE, err |-> Err("ValidationError", <<Lit("Invalid path: empty path")>>)]

\* the entity name taken from the path, or the ValidationError
extract_entity_name(config, parts) ==
    IF config.api_prefix # None
    THEN LET prefix == trim_end_matches(trim_start_matches(config.api_prefix.val, "/"), "/") IN
         IF parts # <<>> /\ parts[1] = prefix
         THEN IF Len(parts) < 2
              THEN [ok |-> FALSE, err |-> Err("ValidationError", <<Lit("Invalid path: missing entity name")>>)]
              ELSE [ok |-> TRUE, name |-> to_lowercase(parts[2])]
         ELSE IF parts # <<>>
         THEN [ok |-> TRUE, name |-> to_lowercase(parts[1])]
         ELSE [ok |-> FALSE, err |-> Err("ValidationError", <<Lit("Invalid path: empty path")>>)]
    ELSE IF parts # <<>>
    THEN [ok |-> TRUE, name |-> to_lowercase(parts[1])]
    ELSE [ok |-> FALSE, err |-> Err("ValidationError", <<Lit("Invalid path: empty path")>>)]

\* a lookup whose iteration order changes once the router has served a request
find_entity_order_changes(r, entity_name) ==
    LET it   == iter(r.entities, IF last.via = "none" THEN r.seed ELSE 1 - r.seed)
        hits == {i \in 1..Len(it) : to_lowercase(it[i].key) = entity_name}
    IN  IF hits = {} THEN None
        ELSE Some(it[CHOOSE i \in hits : \A j \in hits : i <= j])

\* self.entities.iter().find_map(...): the first entry, in iteration order,
\* whose key equals the entity name ignoring case
find_entity(r, entity_name) ==
    LET it   == iter(r.entities, r.seed)
        hits == {i \in 1..Len(it) : to_lowercase(it[i].key) = entity_name}
    IN  IF hits = {} THEN None
        ELSE Some(it[CHOOSE i \in hits : \A j \in hits : i <= j])

possible_keys(method, entity_name) ==
    << DebugMethod(method) \o Colon \o entity_name,
       DebugMethod(method) \o Colon \o entity_name \o Slash \o S_id,
       DebugMethod(method) \o Colon \o S_api \o Slash \o entity_name,
       DebugMethod(method) \o Colon \o S_api \o Slash \o entity_name \o Slash \o S_id >>

\* the first candidate key that the endpoint map has
first_key(endpoints, candidates) ==
    LET hits == {i \in 1..Len(candidates) : has(endpoints, candidates[i])}
    IN  IF hits = {} THEN None
        ELSE Some(candidates[CHOOSE i \in hits : \A j \in hits : i <= j])

\* the partial-match scan over the endpoint map, in iteration order
partial_match(endpoints, seed, method, entity_name) ==
    LET it   == iter(endpoints, seed)
        hits == {i \in 1..Len(it) :
                    contains(it[i].key, entity_name) /\ starts_with(it[i].key, DebugMethod(method))}
    IN  IF hits = {} THEN None
        ELSE Some(it[CHOOSE i \in hits : \A j \in hits : i <= j])

StrList(names) == [i \in 1..Len(names) |-> Str(names[i])]

\* an EntityNotFound that lists the known entities only
entity_not_found_unnamed(r, entity_name) ==
    Err("EntityNotFound",
        <<Lit("Entity not found. Available entities: ")>>
        \o StrList(keys(iter(r.entities, r.seed))))

\* Err(EntityNotFound) for an entity name that no key of the entity table matches
entity_not_found(r, entity_name) ==
    Err("EntityNotFound",
        <<Lit("Entity not found: "), Str(entity_name), Lit(". Available entities: ")>>
        \o StrList(keys(iter(r.entities, r.seed))))

\* Err(EntityNotFound) for a method that no endpoint key of the entity matches
endpoint_not_found(r, req, endpoints) ==
    Err("EntityNotFound",
        <<Lit("Endpoint not found for "), Str(DebugMethod(req.method)), Lit(" "),
          Str(req.path), Lit(". Available endpoints: ")>>
        \o StrList(keys(iter(endpoints, r.seed))))

\* the router's result: the handler's outcome with the entity key, the endpoint
\* key and the handler the router selected (None when it selected none)
Routed(res, entity, endpoint, handler) ==
    [out |-> res.out, db |-> res.db, calls |-> res.calls,
     entity |-> entity, endpoint |-> endpoint, handler |-> handler]

handle_request(r, req, d, up) ==
    LET en == extract_entity_name(r.config, path_parts(req.path)) IN
    IF ~en.ok THEN Routed(Outcome(en.err, d, <<>>), None, None, None)
    ELSE
    LET entity_name == en.name
        entity_api  == find_entity(r, entity_name)
    IN
    IF entity_api = None
    THEN Routed(Outcome(entity_not_found(r, entity_name), d, <<>>), None, None, None)
    ELSE
    LET endpoints == entity_api.val.val.endpoints
        ekey      == Some(entity_api.val.key)
        k         == first_key(endpoints, possible_keys(req.method, entity_name))
    IN
    IF k # None
    THEN LET handler == get(endpoints, k.val)
             res     == Invoke(handler, req, d, up) IN
         IF res.out.tag = "Err" /\ res.out.kind = "EndpointGenerationError"
         THEN Routed(Outcome(Ok(ApiResponse(500, NoHeaders, None)), res.db, res.calls),
                     ekey, k, Some(handler))
         ELSE Routed(res, ekey, k, Some(handler))
    ELSE
    LET found_handler == partial_match(endpoints, r.seed, req.method, entity_name) IN
    IF found_handler # None
    THEN Routed(Invoke(found_handler.val.val, req, d, up),
                ekey, Some(found_handler.val.key), Some(found_handler.val.val))
    ELSE Routed(Outcome(endpoint_not_found(r, req, endpoints), d, <<>>), ekey, None, None)

---------------------------------------------------------------------------
(* Transport layer: the Rocket catch-all handlers and process_request *)

\* Display of RusterApiError (thiserror): prefix and message.  error.rs
\* declares no BadRequest variant, though the handlers construct one; the
\* prefix of its Display is left open
to_string(err) ==
    LET prefix == CASE err.kind = "EndpointGenerationError" -> "Endpoint generation error: "
                    [] err.kind = "EntityNotFound"          -> "Entity not found: "
                    [] err.kind = "ValidationError"         -> "Validation error: "
                    [] err.kind = "ServerError"             -> "Server error: "
                    [] OTHER                                -> "<prefix>: "
    IN  <<Lit(prefix)>> \o err.msg

\* rocket_adapter.rs: the error arm of process_request
rocket_error_status(kind) ==
    CASE kind = "EntityNotFound"  -> 404
      [] kind = "ValidationError" -> 400
      [] kind = "DatabaseError"   -> 500
      [] OTHER                    -> 500

\* handlers/catch_all.rs: the error arm of process_request
catch_all_error_status(kind) ==
    CASE kind = "EntityNotFound"  -> 404
      [] kind = "ValidationError" -> 400
      [] kind = "BadRequest"      -> 400
      [] kind = "DatabaseError"   -> 500
      [] OTHER                    -> 500

\* rocket_adapter.rs process_request: the response for the router's result; a
\* panic of the handler leaves the function without a response
rocket_process_request(out) ==
    CASE out.tag = "Ok"    -> Some(out.resp)
      [] out.tag = "Err"   -> Some(ApiResponse(rocket_error_status(out.kind), NoHeaders,
                                      Some(Json([error |-> to_string(out)]))))
      [] out.tag = "Panic" -> None

\* handlers/catch_all.rs process_request: the router runs in spawn_blocking; a
\* panic there is the JoinError arm
catch_all_process_request(out) ==
    CASE out.tag = "Ok"    -> Some(out.resp)
      [] out.tag = "Err"   -> Some(ApiResponse(catch_all_error_status(out.kind), default_headers,
                                      Some(Json([error |-> to_string(out)]))))
      [] out.tag = "Panic" -> Some(ApiResponse(500, default_headers,
                                      Some(Json([error |-> <<Lit("Internal server error: Request processing failed")>>]))))

\* handlers/catch_all.rs process_request: the Err arm of tokio::time::timeout
timeout_response ==
    ApiResponse(504, default_headers,
        Some(Json([error |-> <<Lit("Request timed out - database operation may be taking too long")>>])))

\* a process_request in which the result of the task replaces the response
join_result_replaces(resp, out) == catch_all_process_request(out)

\* handlers/catch_all.rs process_request: what the end of the blocking task
\* makes of the response.  After the timeout arm was taken the JoinHandle is
\* dropped and the result of the task goes nowhere
join_result(resp, out) ==
    IF resp # None THEN resp ELSE catch_all_process_request(out)

\* get_handler .. patch_handler: the ApiRequest built from the HTTP request;
\* params is an empty map, and get and delete pass no body
\* a transport that takes the id parameter from the second path segment
http_request_with_id(h) ==
    LET parts == path_parts(h.path) IN
    ApiRequest(h.method, h.path,
               IF Len(parts) >= 2 /\ \E i \in 1..9 : parts[2] = <<Digits[i]>>
               THEN Some(CHOOSE i \in 1..9 : parts[2] = <<Digits[i]>>)
               ELSE None,
               IF h.method \in {"POST", "PUT", "PATCH"} THEN h.body ELSE None)

http_request(h) ==
    ApiRequest(h.method, h.path, None,
               IF h.method \in {"POST", "PUT", "PATCH"} THEN h.body ELSE None)

---------------------------------------------------------------------------
(* MariaDbDatasource: the entity mappings and the statements built on them *)

\* serde_json::Value
Value_Null == [json |-> "null"]

Value_Number(n) == [json |-> "number", n |-> n]

Value_String(s) == [json |-> "string", s |-> s]

\* map: a function from the keys of the object to their values
Value_Object(map) == [json |-> "object", map |-> map]

\* serde_json::Map::get(key).cloned().unwrap_or(Value::Null)
get_or_null(map, key) == IF key \in DOMAIN map THEN map[key] ELSE Value_Null

unwrap_or_else(opt, default) == IF opt # None THEN opt.val ELSE default

\* config Field: the members the mapping and the key detection read
Field(name, column_name, required, unique) ==
    [name |-> name, column_name |-> column_name, required |-> required, unique |-> unique]

\* config Entity: the members the mapping reads
EntityTable(name, table_name, fields) ==
    [name |-> name, table_name |-> table_name, fields |-> fields]

FieldMapping(field_name, column_name) ==
    [field_name |-> field_name, column_name |-> column_name]

TableMapping(table_name, primary_key, fields) ==
    [table_name |-> table_name, primary_key |-> primary_key, fields |-> fields]

\* detect_primary_key; create_table_mapping does not call it
detect_primary_key(entity) ==
    LET hit(f) == f.name = "id" \/ (f.unique /\ f.required) IN
    IF \E i \in 1..Len(entity.fields) : hit(entity.fields[i])
    THEN entity.fields[CHOOSE i \in 1..Len(entity.fields) :
                            /\ hit(entity.fields[i])
                            /\ \A j \in 1..(i - 1) : ~hit(entity.fields[j])].name
    ELSE "id"

create_table_mapping(entity) ==
    LET table_name == unwrap_or_else(entity.table_name, entity.name)
        fields     == [i \in 1..Len(entity.fields) |->
                          FieldMapping(entity.fields[i].name,
                              unwrap_or_else(entity.fields[i].column_name,
                                             entity.fields[i].name))]
        primary_key == IF fields = <<>> THEN "id" ELSE fields[1].column_name
    IN  TableMapping(table_name, primary_key, fields)

normalize_entity_name(name) == trim(to_lowercase(name))

\* the third lookup: the first mapping, in the iteration order of the map,
\* whose normalized table name is the normalized name
find_by_table_name(mappings, seed, normalized) ==
    LET values == iter(mappings, seed)
        hit(i) == normalize_entity_name(values[i].val.table_name) = normalized IN
    IF \E i \in 1..Len(values) : hit(i)
    THEN Some(values[CHOOSE i \in 1..Len(values) :
                         hit(i) /\ \A j \in 1..(i - 1) : ~hit(j)].val)
    ELSE None

find_entity_mapping(mappings, seed, entity_name) ==
    LET normalized == normalize_entity_name(entity_name) IN
    IF has(mappings, normalized) THEN Some(get(mappings, normalized))
    ELSE IF has(mappings, entity_name) THEN Some(get(mappings, entity_name))
    ELSE find_by_table_name(mappings, seed, normalized)

\* the body of the loop of configure_entity_mappings
configure_entity(mappings, entity) ==
    LET normalized_name == normalize_entity_name(entity.name)
        mapping == create_table_mapping(entity)
        m1 == insert(mappings, normalized_name, mapping)
        m2 == IF entity.name # normalized_name
              THEN insert(m1, entity.name, mapping) ELSE m1
    IN  IF mapping.table_name # normalized_name /\ mapping.table_name # entity.name
        THEN insert(m2, mapping.table_name, mapping) ELSE m2

RECURSIVE configure_entity_mappings(_, _)
configure_entity_mappings(mappings, entities) ==
    IF entities = <<>> THEN mappings
    ELSE configure_entity_mappings(configure_entity(mappings, Head(entities)),
                                   Tail(entities))

\* the text of a statement: key words, quoted identifiers and placeholders
Sql(text) == [sql |-> text]

Quoted(identifier) == [quoted |-> identifier]

Placeholder == [sql |-> "?"]

\* Vec<Vec<token>>::join(sep)
RECURSIVE join(_, _)
join(pieces, sep) ==
    IF pieces = <<>> THEN <<>>
    ELSE IF Len(pieces) = 1 THEN pieces[1]
    ELSE pieces[1] \o <<sep>> \o join(Tail(pieces), sep)

NotFound(entity_name) == [ok |-> FALSE, err |-> "NotFound", entity_name |-> entity_name]

SerializationError == [ok |-> FALSE, err |-> "SerializationError"]

ValidationError_NotObject == [ok |-> FALSE, err |-> "ValidationError"]

validate_entity(mappings, seed, item, entity_name) ==
    IF find_entity_mapping(mappings, seed, entity_name) = None THEN NotFound(entity_name)
    ELSE IF item.json = "object" THEN [ok |-> TRUE]
    ELSE ValidationError_NotObject

generate_insert_query(mappings, seed, entity_name) ==
    LET found == find_entity_mapping(mappings, seed, entity_name) IN
    IF found = None THEN NotFound(entity_name)
    ELSE LET mapping      == found.val
             columns      == [i \in 1..Len(mapping.fields) |->
                                 <<Quoted(mapping.fields[i].column_name)>>]
             placeholders == [i \in 1..Len(mapping.fields) |-> <<Placeholder>>]
         IN  [ok |-> TRUE,
              val |-> <<Sql("INSERT INTO"), Quoted(mapping.table_name), Sql("(")>>
                      \o join(columns, Sql(","))
                      \o <<Sql(") VALUES (")>>
                      \o join(placeholders, Sql(","))
                      \o <<Sql(")")>>]

generate_update_query(mappings, seed, entity_name) ==
    LET found == find_entity_mapping(mappings, seed, entity_name) IN
    IF found = None THEN NotFound(entity_name)
    ELSE LET mapping     == found.val
             not_pk(f)   == f.field_name # mapping.primary_key
             kept        == SelectSeq(mapping.fields, not_pk)
             set_clauses == [i \in 1..Len(kept) |->
                                <<Quoted(kept[i].column_name), Sql("="), Placeholder>>]
         IN  [ok |-> TRUE,
              val |-> <<Sql("UPDATE"), Quoted(mapping.table_name), Sql("SET")>>
                      \o join(set_clauses, Sql(","))
                      \o <<Sql("WHERE"), Quoted(mapping.primary_key), Sql("="), Placeholder>>]

entity_to_query_values(mappings, seed, item, entity_name) ==
    LET found == find_entity_mapping(mappings, seed, entity_name) IN
    IF found = None THEN NotFound(entity_name)
    ELSE IF item.json = "object"
    THEN [ok |-> TRUE,
          val |-> [i \in 1..Len(found.val.fields) |->
                      get_or_null(item.map, found.val.fields[i].field_name)]]
    ELSE SerializationError

\* values for an UPDATE that bind the primary key too
prepare_update_values_all_fields(mappings, seed, item, entity_name, id) ==
    LET found == find_entity_mapping(mappings, seed, entity_name) IN
    IF found = None THEN NotFound(entity_name)
    ELSE IF item.json = "object"
    THEN [ok |-> TRUE,
          val |-> [i \in 1..Len(found.val.fields) |->
                      get_or_null(item.map, found.val.fields[i].field_name)]
                  \o <<Value_String(id)>>]
    ELSE SerializationError

prepare_update_values(mappings, seed, item, entity_name, id) ==
    LET found == find_entity_mapping(mappings, seed, entity_name) IN
    IF found = None THEN NotFound(entity_name)
    ELSE IF item.json = "object"
    THEN LET mapping   == found.val
             not_pk(f) == f.field_name # mapping.primary_key
             kept      == SelectSeq(mapping.fields, not_pk)
         IN  [ok |-> TRUE,
              val |-> [i \in 1..Len(kept) |-> get_or_null(item.map, kept[i].field_name)]
                      \o <<Value_String(id)>>]
    ELSE SerializationError

---------------------------------------------------------------------------
(* Configurations and requests explored *)

Datasource(key, table) == [key |-> key, val |-> [table |-> table]]

Config(api_prefix, advanced, basic) ==
    [api_prefix |-> api_prefix, entities_advanced |-> advanced, entities_basic |-> basic]

CustomRoute(path, method, handler) ==
    [path |-> path, method |-> method, handler |-> handler]

\* "/api" prefix, one basic entity `users`
ConfigBasic == Config(Some(Slash \o S_api), <<>>, <<EntityBasic(S_users)>>)

\* no prefix, one advanced entity `users` with every CRUD endpoint
ConfigAdvanced == Config(None, <<Entity(S_users, AllCrud)>>, <<>>)

\* two advanced entities whose names are equal ignoring case
ConfigMixedCase ==
    Config(Some(Slash \o S_api),
           <<Entity(S_Users, EndpointConfig(TRUE, FALSE, FALSE, FALSE, TRUE, <<>>)),
             Entity(S_users, AllCrud)>>,
           <<>>)

\* an entity without list and read endpoints and with two custom GET routes
ConfigCustom ==
    Config(Some(Slash \o S_api),
           <<Entity(S_users, EndpointConfig(TRUE, FALSE, TRUE, TRUE, FALSE,
                                <<CustomRoute(Slash \o S_search, "GET", "search"),
                                  CustomRoute(Slash \o S_search \o Slash \o S_id, "GET", "search_one")>>))>>,
           <<>>)

Configs == {ConfigBasic, ConfigAdvanced, ConfigMixedCase, ConfigCustom}

\* what DataSourceFactory::create_datasources returns: one entry per entity name
RECURSIVE datasources_of(_)
datasources_of(entities) ==
    IF entities = <<>> THEN <<>>
    ELSE LET rest == datasources_of(Tail(entities)) IN
         IF has(rest, Head(entities).name) THEN rest
         ELSE <<Datasource(Head(entities).name, to_lowercase(Head(entities).name))>> \o rest

\* DataSourceFactory::create_datasources for the outcome of the database
\* connection: without a connection the map is empty
create_datasources_from(config, db_connection) ==
    IF db_connection # None
    THEN datasources_of(config.entities_advanced \o config.entities_basic)
    ELSE <<>>

\* create_datasources with a database that accepts the connection
create_datasources(config) == create_datasources_from(config, Some("MySQL"))

Routers ==
    {ApiAdapter_new(c, create_datasources(c), seed) : c \in Configs, seed \in Seeds}

Tables == {S_users}

\* the decimal text of an id
IdStr(i) == <<Digits[i]>>

UsersPath == S_users

UserPath(i) == S_users \o Slash \o IdStr(i)

\* the paths that exercise prefix handling, letter case and unknown entities
RoutePaths ==
    { Slash \o S_users, Slash \o S_Users, Slash \o S_api \o Slash \o S_users,
      Slash \o S_otherprefix \o Slash \o S_users, S_nosuch, Slash \o S_NoSuch,
      Slash \o S_api, <<>> }

\* the bodies a client posts: absent, "", not JSON, or a new item named "a"
PostBodies ==
    {None, Some(BodyEmpty), Some(BodyGarbage)}
        \cup {Some(BodyJson([id |-> i, name |-> "a"])) : i \in Ids}

\* the bodies a client puts: absent, "", not JSON, or an item renamed to "b"
PutBodies ==
    {None, Some(BodyEmpty), Some(BodyGarbage)}
        \cup {Some(BodyJson([id |-> i, name |-> "b"])) : i \in Ids}

SampleBody(method) ==
    CASE method = "POST" -> Some(BodyJson([id |-> 1, name |-> "a"]))
      [] method = "PUT"  -> Some(BodyJson([id |-> 1, name |-> "b"]))
      [] OTHER           -> None

\* the requests of a REST client of `users`, with and without the id parameter
CrudRequests ==
    {ApiRequest("POST", UsersPath, None, b) : b \in PostBodies}
    \cup {ApiRequest("GET", UsersPath, None, None)}
    \cup UNION {{ApiRequest(m, UserPath(i), q, None) : m \in {"GET", "DELETE"}, q \in {None, Some(i)}}
                : i \in Ids}
    \cup UNION {{ApiRequest("PUT", UserPath(i), q, b) : q \in {None, Some(i)}, b \in PutBodies}
                : i \in Ids}

\* requests that differ in prefix, letter case and entity segment
RouteRequests ==
    {ApiRequest(m, p, Some(1), SampleBody(m)) : m \in HttpMethod, p \in RoutePaths}

\* the paths requested over HTTP (below the mount point)
HttpPaths == {UsersPath, UserPath(1), S_nosuch}

BodiesOf(method) ==
    CASE method = "POST" -> PostBodies
      [] method = "PUT"  -> PutBodies
      [] OTHER           -> {None}

\* an HTTP request: its method, the path below the mount point and the body
\* as body_to_string read it
HttpRequest(method, path, body) == [method |-> method, path |-> path, body |-> body]

HttpRequests ==
    UNION {{HttpRequest(m, p, b) : p \in HttpPaths, b \in BodiesOf(m)} : m \in HttpMethod}

---------------------------------------------------------------------------
(* State machine *)

\* main has built the adapter and start_server has launched Rocket
Serving == [stage |-> "serving"]

\* no request is in the middle of its processing
NoFlight == [tag |-> "none"]

---------------------------------------------------------------------------
(* The desktop shell (src-tauri/src/main.rs): start, stop and restart *)

\* a command slot that runs nothing
IdleCommand == [fn |-> "none", pc |-> "idle"]

\* the statics as declared, no thread, no command
TauriIdle ==
    /\ SERVER_RUNNING = FALSE
    /\ SERVER_ERROR = None
    /\ REQUEST_COUNT = 0
    /\ threads = <<>>
    /\ commands = [c \in 1..MaxCommands |-> IdleCommand]

CommandResult(fn, result) == [via |-> fn, result |-> result]

\* the frontend invokes start_api_server, stop_api_server or restart_api_server
InvokeCommand(c, fn) ==
    /\ commands[c] = IdleCommand
    /\ commands' = [commands EXCEPT ![c] = [fn |-> fn, pc |-> "entry"]]
    /\ UNCHANGED <<SERVER_RUNNING, SERVER_ERROR, REQUEST_COUNT, threads>>
    /\ UNCHANGED <<router, db, dsUp, last, inflight, server, entity_mappings>>

\* start_api_server: the check of SERVER_RUNNING, before the first await
StartCheck(c) ==
    /\ commands[c].pc = "check"
    /\ IF SERVER_RUNNING
       THEN /\ commands' = [commands EXCEPT ![c] = IdleCommand]
            /\ last' = CommandResult(commands[c].fn, Err("Command", <<Lit("Server is already running")>>))
       ELSE /\ commands' = [commands EXCEPT ![c].pc = "configured"]
            /\ UNCHANGED last
    /\ UNCHANGED <<SERVER_RUNNING, SERVER_ERROR, REQUEST_COUNT, threads>>
    /\ UNCHANGED <<router, db, dsUp, inflight, server, entity_mappings>>

\* start_api_server: the configuration is read and validate_database_config
\* rejects it
StartInvalid(c) ==
    /\ commands[c].pc = "configured"
    /\ SERVER_RUNNING' = FALSE
    /\ SERVER_ERROR' = Some("Invalid database configuration")
    /\ commands' = [commands EXCEPT ![c] = IdleCommand]
    /\ last' = CommandResult(commands[c].fn, Err("Command", <<Lit("Invalid database configuration")>>))
    /\ UNCHANGED <<REQUEST_COUNT, threads>>
    /\ UNCHANGED <<router, db, dsUp, inflight, server, entity_mappings>>

\* start_api_server: the configuration is valid; the statics are set, the
\* metrics reset and the server thread spawned
StartSpawn(c) ==
    /\ commands[c].pc = "configured"
    /\ Len(threads) < MaxThreads
    /\ SERVER_RUNNING' = TRUE
    /\ SERVER_ERROR' = None
    /\ REQUEST_COUNT' = 0
    /\ threads' = Append(threads, "starting")
    /\ commands' = [commands EXCEPT ![c].pc = "sleep"]
    /\ UNCHANGED <<router, db, dsUp, last, inflight, server, entity_mappings>>

\* start_api_server: after the sleep of one second
StartReport(c) ==
    /\ commands[c].pc = "sleep"
    /\ IF SERVER_ERROR # None
       THEN /\ SERVER_RUNNING' = FALSE
            /\ last' = CommandResult(commands[c].fn, Err("Command", <<Lit("Failed to start server")>>))
       ELSE /\ UNCHANGED SERVER_RUNNING
            /\ last' = CommandResult(commands[c].fn, Ok("API server started successfully"))
    /\ commands' = [commands EXCEPT ![c] = IdleCommand]
    /\ UNCHANGED <<SERVER_ERROR, REQUEST_COUNT, threads>>
    /\ UNCHANGED <<router, db, dsUp, inflight, server, entity_mappings>>

\* stop_api_server: the flag is cleared; the server thread is not signalled
StopServer(c) ==
    /\ commands[c] = [fn |-> "stop_api_server", pc |-> "entry"]
    /\ SERVER_RUNNING' = FALSE
    /\ last' = CommandResult("stop_api_server",
                   Ok(IF SERVER_RUNNING THEN "API server stopped" ELSE "Server is not running"))
    /\ commands' = [commands EXCEPT ![c] = IdleCommand]
    /\ UNCHANGED <<SERVER_ERROR, REQUEST_COUNT, threads>>
    /\ UNCHANGED <<router, db, dsUp, inflight, server, entity_mappings>>

\* start_api_server called by the frontend reaches its check
StartEntry(c) ==
    /\ commands[c] = [fn |-> "start_api_server", pc |-> "entry"]
    /\ commands' = [commands EXCEPT ![c].pc = "check"]
    /\ UNCHANGED <<SERVER_RUNNING, SERVER_ERROR, REQUEST_COUNT, threads>>
    /\ UNCHANGED <<router, db, dsUp, last, inflight, server, entity_mappings>>

\* restart_api_server: stop if running, reset the metrics, then start
RestartStop(c) ==
    /\ commands[c] = [fn |-> "restart_api_server", pc |-> "entry"]
    /\ SERVER_RUNNING' = FALSE
    /\ REQUEST_COUNT' = 0
    /\ commands' = [commands EXCEPT ![c].pc = "check"]
    /\ UNCHANGED <<SERVER_ERROR, threads>>
    /\ UNCHANGED <<router, db, dsUp, last, inflight, server, entity_mappings>>

\* the server thread: Rocket binds the port and serves; the port is free
\* when no other thread serves
ThreadServe(t) ==
    /\ t <= Len(threads)
    /\ threads[t] = "starting"
    /\ \A u \in 1..Len(threads) : threads[u] # "serving"
    /\ threads' = [threads EXCEPT ![t] = "serving"]
    /\ UNCHANGED <<SERVER_RUNNING, SERVER_ERROR, REQUEST_COUNT, commands>>
    /\ UNCHANGED <<router, db, dsUp, last, inflight, server, entity_mappings>>

\* the server thread: start_server (or the runtime) fails
ThreadFail(t) ==
    /\ t <= Len(threads)
    /\ threads[t] = "starting"
    /\ threads' = [threads EXCEPT ![t] = "failed"]
    /\ SERVER_ERROR' = Some("start_server")
    /\ SERVER_RUNNING' = FALSE
    /\ UNCHANGED <<REQUEST_COUNT, commands>>
    /\ UNCHANGED <<router, db, dsUp, last, inflight, server, entity_mappings>>

\* test_api_endpoint: the request is counted while SERVER_RUNNING is set
TestApiEndpoint ==
    /\ SERVER_RUNNING
    /\ REQUEST_COUNT < MaxRequests
    /\ REQUEST_COUNT' = REQUEST_COUNT + 1
    /\ UNCHANGED <<SERVER_RUNNING, SERVER_ERROR, threads, commands>>
    /\ UNCHANGED <<router, db, dsUp, last, inflight, server, entity_mappings>>

TauriCommands == {"start_api_server", "stop_api_server", "restart_api_server"}

\* the desktop shell before any command; no Router is built in its process
\* until a server thread runs
InitTauri ==
    /\ TauriIdle
    /\ router = None
    /\ db = [t \in Tables |-> EmptyTable]
    /\ dsUp = TRUE
    /\ last = [via |-> "none"]
    /\ inflight = NoFlight
    /\ server = [stage |-> "tauri"]
    /\ entity_mappings = <<>>

NextTauri ==
    \/ \E c \in 1..MaxCommands, fn \in TauriCommands : InvokeCommand(c, fn)
    \/ \E c \in 1..MaxCommands : StartEntry(c)
    \/ \E c \in 1..MaxCommands : StartCheck(c)
    \/ \E c \in 1..MaxCommands : StartInvalid(c)
    \/ \E c \in 1..MaxCommands : StartSpawn(c)
    \/ \E c \in 1..MaxCommands : StartReport(c)
    \/ \E c \in 1..MaxCommands : StopServer(c)
    \/ \E c \in 1..MaxCommands : RestartStop(c)
    \/ \E t \in 1..MaxThreads : ThreadServe(t)
    \/ \E t \in 1..MaxThreads : ThreadFail(t)
    \/ TestApiEndpoint

SpecTauri == InitTauri /\ [][NextTauri]_vars

---------------------------------------------------------------------------
(* The Router and the HTTP transport as a state machine *)

Exchange(via, req, res, resp) ==
    [via |-> via, req |-> req, out |-> res.out, calls |-> res.calls,
     entity |-> res.entity, endpoint |-> res.endpoint, handler |-> res.handler,
     before |-> db, up |-> dsUp, resp |-> resp]

Init ==
    /\ router \in Routers
    /\ db = [t \in Tables |-> EmptyTable]
    /\ dsUp = TRUE
    /\ last = [via |-> "none"]
    /\ inflight = NoFlight
    /\ server = Serving
    /\ entity_mappings = <<>>
    /\ TauriIdle

\* a caller invokes the Router directly with an ApiRequest
Dispatch(req) ==
    \E res \in {handle_request(router, req, db, dsUp)} :
        /\ db' = res.db
        /\ last' = Exchange("router", req, res, None)
        /\ UNCHANGED <<tauri_vars, entity_mappings, server, router, dsUp, inflight>>

\* an HTTP request served by the routes of rocket_adapter.rs
RocketServe(h) ==
    \E res \in {handle_request(router, http_request(h), db, dsUp)} :
        /\ db' = res.db
        /\ last' = Exchange("rocket_adapter", http_request(h), res, rocket_process_request(res.out))
        /\ UNCHANGED <<tauri_vars, entity_mappings, server, router, dsUp, inflight>>

\* an HTTP request served by the routes of handlers/catch_all.rs
CatchAllServe(h) ==
    \E res \in {handle_request(router, http_request(h), db, dsUp)} :
        /\ db' = res.db
        /\ last' = Exchange("catch_all", http_request(h), res, catch_all_process_request(res.out))
        /\ UNCHANGED <<tauri_vars, entity_mappings, server, router, dsUp, inflight>>

\* the Router called by a REST client of `users`
Next ==
    \E req \in CrudRequests : Dispatch(req)

Spec == Init /\ [][Next]_vars

\* the Router called with paths that differ in prefix, case and entity
NextRoute ==
    \E req \in RouteRequests : Dispatch(req)

SpecRoute == Init /\ [][NextRoute]_vars

\* the server: both sets of Rocket routes
NextHttp ==
    \/ \E h \in HttpRequests : RocketServe(h)
    \/ \E h \in HttpRequests : CatchAllServe(h)

SpecHttp == Init /\ [][NextHttp]_vars

\* `users` without the list endpoint, with a custom route on the key of the
\* read endpoint and two custom routes on one key of their own
ConfigCollide ==
    Config(None,
           <<Entity(S_users, EndpointConfig(TRUE, TRUE, TRUE, TRUE, FALSE,
                                <<CustomRoute(Slash \o S_id, "GET", "read_override"),
                                  CustomRoute(Slash \o S_search, "GET", "search_old"),
                                  CustomRoute(Slash \o S_search, "GET", "search_new")>>))>>,
           <<>>)

\* `users` with a custom route on the key of the list endpoint and one on
\* the key of the create endpoint
ConfigCollideList ==
    Config(Some(Slash \o S_api),
           <<Entity(S_users, EndpointConfig(TRUE, FALSE, FALSE, FALSE, TRUE,
                                <<CustomRoute(<<>>, "POST", "create_override"),
                                  CustomRoute(<<>>, "GET", "list_override")>>))>>,
           <<>>)

CollideRouters ==
    {ApiAdapter_new(c, create_datasources(c), seed) :
        c \in {ConfigCollide, ConfigCollideList}, seed \in Seeds}

\* requests to `users` and to its custom route
CollideRequests ==
    CrudRequests
    \cup {ApiRequest("GET", S_users \o Slash \o S_search, None, None)}

InitCollide ==
    /\ router \in CollideRouters
    /\ db = [t \in Tables |-> EmptyTable]
    /\ dsUp = TRUE
    /\ last = [via |-> "none"]
    /\ inflight = NoFlight
    /\ server = Serving
    /\ entity_mappings = <<>>
    /\ TauriIdle

\* the Router built from a configuration whose registrations collide
NextCollide ==
    \E req \in CollideRequests : Dispatch(req)

SpecCollide == InitCollide /\ [][NextCollide]_vars

\* `users` with some of the write operations switched off and no custom route
ConfigReadOnly ==
    Config(None, <<Entity(S_users, EndpointConfig(FALSE, TRUE, FALSE, FALSE, TRUE, <<>>))>>, <<>>)

ConfigNoCreate ==
    Config(Some(Slash \o S_api),
           <<Entity(S_users, EndpointConfig(FALSE, TRUE, TRUE, TRUE, FALSE, <<>>))>>, <<>>)

ConfigCreateOnly ==
    Config(None, <<Entity(S_users, EndpointConfig(TRUE, FALSE, FALSE, FALSE, FALSE, <<>>))>>, <<>>)

DisabledRouters ==
    {ApiAdapter_new(c, create_datasources(c), seed) :
        c \in {ConfigReadOnly, ConfigNoCreate, ConfigCreateOnly}, seed \in Seeds}

\* the backend when the server starts: empty, or with the row of id 1
StoredTables ==
    {[t \in Tables |-> EmptyTable],
     [t \in Tables |-> [EmptyTable EXCEPT ![1] = Some([id |-> 1, name |-> "a"])]]}

InitDisabled ==
    /\ router \in DisabledRouters
    /\ db \in StoredTables
    /\ dsUp = TRUE
    /\ last = [via |-> "none"]
    /\ inflight = NoFlight
    /\ server = Serving
    /\ entity_mappings = <<>>
    /\ TauriIdle

\* the Router of an entity with write operations switched off
NextDisabled ==
    \E req \in CrudRequests : Dispatch(req)

SpecDisabled == InitDisabled /\ [][NextDisabled]_vars

\* no prefix, one advanced entity `Id`: in lower case its name is part of
\* the ":id" suffix of the keys
ConfigShortName == Config(None, <<Entity(S_Id, AllCrud)>>, <<>>)

FaultRouters ==
    {ApiAdapter_new(c, create_datasources(c), seed) :
        c \in {ConfigBasic, ConfigShortName}, seed \in Seeds}

FaultTables == {S_users, to_lowercase(S_Id)}

\* Router calls for `users` and for `Id`, with the id parameter
FaultRequests ==
    {ApiRequest(m, p, Some(1), SampleBody(m)) :
        m \in {"GET", "POST", "PUT", "DELETE"},
        p \in {UsersPath, UserPath(1), to_lowercase(S_Id)}}

FaultHttpRequests ==
    {HttpRequest(m, p, SampleBody(m)) :
        m \in {"GET", "POST", "PUT", "DELETE"}, p \in {UsersPath, UserPath(1), S_nosuch}}

InitFault ==
    /\ router \in FaultRouters
    /\ db = [t \in FaultTables |-> EmptyTable]
    /\ dsUp = TRUE
    /\ last = [via |-> "none"]
    /\ inflight = NoFlight
    /\ server = Serving
    /\ entity_mappings = <<>>
    /\ TauriIdle

\* the database stops answering: get_pool_or_err or the query fails
Fail ==
    /\ dsUp
    /\ dsUp' = FALSE
    /\ UNCHANGED <<tauri_vars, entity_mappings, server, router, db, last, inflight>>

\* the database answers again
Recover ==
    /\ ~dsUp
    /\ dsUp' = TRUE
    /\ UNCHANGED <<tauri_vars, entity_mappings, server, router, db, last, inflight>>

\* the Router and the server with a database that can fail
NextFault ==
    \/ \E req \in FaultRequests : Dispatch(req)
    \/ \E h \in FaultHttpRequests : RocketServe(h)
    \/ \E h \in FaultHttpRequests : CatchAllServe(h)
    \/ Fail
    \/ Recover

SpecFault == InitFault /\ [][NextFault]_vars

\* the requests of two clients of `users`: creates, deletes and the list
RaceRequests ==
    {ApiRequest("POST", UsersPath, None, Some(BodyJson([id |-> i, name |-> "a"]))) : i \in Ids}
    \cup {ApiRequest("DELETE", UserPath(i), Some(i), None) : i \in Ids}

UpdateRequests ==
    {ApiRequest("PUT", UserPath(i), Some(i), Some(BodyJson([id |-> i, name |-> n]))) :
        i \in Ids, n \in Names}

InitRace ==
    /\ router \in {ApiAdapter_new(c, create_datasources(c), seed) :
                      c \in {ConfigBasic, ConfigAdvanced}, seed \in Seeds}
    /\ db = [t \in Tables |-> EmptyTable]
    /\ dsUp = TRUE
    /\ last = [via |-> "none"]
    /\ inflight = NoFlight
    /\ server = Serving
    /\ entity_mappings = <<>>
    /\ TauriIdle

\* an update request runs up to its get_by_id, which returns Ok(Some(_));
\* its thread has not called datasource.update yet
UpdateCheck(req) ==
    /\ inflight = NoFlight
    /\ \E res \in {handle_request(router, req, db, dsUp)} :
          /\ res.handler # None
          /\ res.handler.val.kind = "update"
          /\ res.calls = <<"get_by_id", "update">>
          /\ inflight' = [tag |-> "update", req |-> req, entity |-> res.entity,
                          endpoint |-> res.endpoint, handler |-> res.handler,
                          exact |-> first_key(get(router.entities, res.entity.val).endpoints,
                                              possible_keys(req.method, to_lowercase(res.entity.val))) # None]
    /\ UNCHANGED <<tauri_vars, entity_mappings, server, router, db, dsUp, last>>

\* the update request goes on: datasource.update, then the response
UpdateWrite ==
    /\ inflight.tag = "update"
    /\ \E w \in {update_handler_write(inflight.handler.val, inflight.req, db, dsUp)} :
          /\ db' = w.db
          /\ last' = Exchange("router", inflight.req,
                         Routed(IF inflight.exact /\ w.out.tag = "Err"
                                      /\ w.out.kind = "EndpointGenerationError"
                                THEN Outcome(Ok(ApiResponse(500, NoHeaders, None)), w.db, w.calls)
                                ELSE w,
                                inflight.entity, inflight.endpoint, inflight.handler),
                         None)
    /\ inflight' = NoFlight
    /\ UNCHANGED <<tauri_vars, entity_mappings, server, router, dsUp>>

\* two clients: one whose update is interleaved with the requests of the other
NextRace ==
    \/ \E req \in RaceRequests : Dispatch(req)
    \/ \E req \in UpdateRequests : UpdateCheck(req)
    \/ UpdateWrite

SpecRace == InitRace /\ [][NextRace]_vars

\* slow requests: lists, creates, and a request for an unknown entity
TimeoutRequests ==
    {HttpRequest("GET", p, None) : p \in {UsersPath, S_nosuch}}
    \cup {HttpRequest("POST", UsersPath, b) : b \in PostBodies}

\* process_request of handlers/catch_all.rs, step by step: the request is
\* handed to a blocking task and awaited under the 30 s timeout
CatchAllStart(h) ==
    /\ inflight = NoFlight
    /\ inflight' = [tag |-> "task", req |-> http_request(h), before |-> db,
                    done |-> FALSE, timedOut |-> FALSE, resp |-> None, responses |-> 0]
    /\ UNCHANGED <<tauri_vars, entity_mappings, server, router, db, dsUp, last>>

\* the 30 s pass before the task ends: the timeout arm builds the response
Timeout ==
    /\ inflight.tag = "task"
    /\ ~inflight.done
    /\ inflight.resp = None
    /\ inflight' = [inflight EXCEPT !.timedOut = TRUE, !.resp = Some(timeout_response),
                                    !.responses = @ + 1]
    /\ UNCHANGED <<tauri_vars, entity_mappings, server, router, db, dsUp, last>>

\* the blocking task runs handle_request to its end, timed out or not
TaskRun ==
    /\ inflight.tag = "task"
    /\ ~inflight.done
    /\ \E res \in {handle_request(router, inflight.req, db, dsUp)} :
          /\ db' = res.db
          /\ inflight' = [inflight EXCEPT !.done = TRUE,
                                          !.resp = join_result(inflight.resp, res.out),
                                          !.responses = IF join_result(inflight.resp, res.out) = inflight.resp
                                                        THEN @ ELSE @ + 1]
          /\ last' = [Exchange("catch_all", inflight.req, res, join_result(inflight.resp, res.out))
                         EXCEPT !.before = db]
    /\ UNCHANGED <<tauri_vars, entity_mappings, server, router, dsUp>>

\* the response has been sent and the task has ended
TaskGone ==
    /\ inflight.tag = "task"
    /\ inflight.done
    /\ inflight' = NoFlight
    /\ UNCHANGED <<tauri_vars, entity_mappings, server, router, db, dsUp, last>>

\* the routes of handlers/catch_all.rs with slow requests
NextTimeout ==
    \/ \E h \in TimeoutRequests : CatchAllStart(h)
    \/ Timeout
    \/ TaskRun
    \/ TaskGone

SpecTimeout == Init /\ [][NextTimeout]_vars

\* "/api" prefix, two basic entities
ConfigTwo == Config(Some(Slash \o S_api), <<>>, <<EntityBasic(S_orders), EntityBasic(S_users)>>)

StartupConfigs == {ConfigTwo, ConfigBasic}

StartupTables == {S_users, S_orders}

\* the entries of a datasource map with the keys in K
FilterKeys(m, K) == SelectSeq(m, LAMBDA e : e.key \in K)

\* the datasource maps a caller of ApiAdapter::new can pass for a
\* configuration: an entry for some of its entities
DatasourceMaps(config) ==
    {FilterKeys(create_datasources(config), K) : K \in SUBSET {S_users, S_orders}}

StartupRequests ==
    {ApiRequest(m, p, None, SampleBody(m)) : m \in {"GET", "POST"}, p \in {S_users, S_orders}}

StartupHttpRequests ==
    {HttpRequest(m, p, SampleBody(m)) : m \in {"GET", "POST"}, p \in {S_users, S_orders}}

\* main: the configuration is loaded; the database accepts the connection
\* (and is MySQL) or it does not
InitStartup ==
    /\ server \in {[stage |-> "main", config |-> c, db_connection |-> conn] :
                      c \in StartupConfigs, conn \in {None, Some("MySQL")}}
    /\ router = None
    /\ db = [t \in StartupTables |-> EmptyTable]
    /\ dsUp = TRUE
    /\ last = [via |-> "none"]
    /\ inflight = NoFlight
    /\ entity_mappings = <<>>
    /\ TauriIdle

\* main: DataSourceFactory::create_datasources
CreateDatasources ==
    /\ server.stage = "main"
    /\ server' = [stage |-> "datasources", config |-> server.config,
                  db_connection |-> server.db_connection,
                  datasources |-> create_datasources_from(server.config, server.db_connection)]
    /\ UNCHANGED <<tauri_vars, entity_mappings, router, db, dsUp, last, inflight>>

\* a caller that builds the datasource map itself
ProvideDatasources(datasources) ==
    /\ server.stage = "main"
    /\ server.db_connection # None
    /\ server' = [stage |-> "datasources", config |-> server.config,
                  db_connection |-> server.db_connection, datasources |-> datasources]
    /\ UNCHANGED <<tauri_vars, entity_mappings, router, db, dsUp, last, inflight>>

\* main: ApiAdapter::new(config, datasources)
NewAdapter(seed) ==
    /\ server.stage = "datasources"
    /\ router' = ApiAdapter_new(server.config, server.datasources, seed)
    /\ server' = [server EXCEPT !.stage = "adapter"]
    /\ UNCHANGED <<tauri_vars, entity_mappings, db, dsUp, last, inflight>>

\* main: api_adapter.start_server(); the launch of Rocket can fail
StartServer(launched) ==
    /\ server.stage = "adapter"
    /\ server' = [server EXCEPT !.stage = IF launched THEN "serving" ELSE "failed"]
    /\ UNCHANGED <<tauri_vars, entity_mappings, router, db, dsUp, last, inflight>>

\* the program from main on, and the requests the started server answers
NextStartup ==
    \/ CreateDatasources
    \/ \E datasources \in DatasourceMaps(server.config) : ProvideDatasources(datasources)
    \/ \E seed \in Seeds : NewAdapter(seed)
    \/ \E launched \in BOOLEAN : StartServer(launched)
    \/ server.stage = "serving" /\ \E h \in StartupHttpRequests : RocketServe(h)
    \/ server.stage \in {"adapter", "serving"} /\ \E req \in StartupRequests : Dispatch(req)

SpecStartup == InitStartup /\ [][NextStartup]_vars

\* the field lists of the configured entities: plain, with column names of
\* their own, with `id` after another field, without `id`, and empty
FieldsPlain ==
    <<Field("id", None, TRUE, TRUE), Field("name", None, TRUE, FALSE)>>

FieldsRenamed ==
    <<Field("id", Some("user_id"), TRUE, TRUE),
      Field("name", Some("full_name"), TRUE, FALSE)>>

FieldsIdLast ==
    <<Field("name", None, TRUE, FALSE), Field("id", None, TRUE, TRUE)>>

FieldsNoId ==
    <<Field("name", None, FALSE, FALSE), Field("email", None, TRUE, TRUE)>>

FieldLists == {FieldsPlain, FieldsRenamed, FieldsIdLast, FieldsNoId, <<>>}

S_People == <<"P","e","o","p","l","e">>

\* the entity lists a configuration hands to configure_entity_mappings; the
\* names of one list differ ignoring case
EntityLists ==
    {<<EntityTable(S_users, None, f)>> : f \in FieldLists}
    \cup {<<EntityTable(S_Users, Some(S_People), FieldsPlain)>>}
    \cup {<<EntityTable(S_users, Some(t), FieldsPlain), EntityTable(S_people, None, FieldsRenamed)>>
             : t \in {S_people, S_People}}
    \cup {<<EntityTable(S_people, None, FieldsRenamed), EntityTable(S_users, Some(t), FieldsPlain)>>
             : t \in {S_people, S_People}}

\* the names a caller looks a mapping up by
LookupNames ==
    {S_users, S_Users, <<" ">> \o S_users \o <<" ">>, S_people, S_People, S_nosuch}

StatementNames == {S_users, S_people, S_nosuch}

\* the entity values written: a full object, objects without some keys, and
\* a value that is not an object
MappingItems ==
    {Value_Object([id |-> Value_Number(1), name |-> Value_String("a"),
                   email |-> Value_String("e")]),
     Value_Object([id |-> Value_Number(2), name |-> Value_String("b")]),
     Value_Object([name |-> Value_String("a")]),
     Value_Number(1)}

\* MariaDbDatasource::new: no mapping yet; the factory holds the entities
InitMapping ==
    /\ server \in {[stage |-> "new", entities |-> es, seed |-> seed] :
                      es \in EntityLists, seed \in Seeds}
    /\ entity_mappings = <<>>
    /\ router = None
    /\ db = [t \in Tables |-> EmptyTable]
    /\ dsUp = TRUE
    /\ last = [via |-> "none"]
    /\ inflight = NoFlight
    /\ TauriIdle

\* create_mariadb_datasource: configure_entity_mappings with all entities
ConfigureEntityMappings ==
    /\ server.stage = "new"
    /\ entity_mappings' = configure_entity_mappings(entity_mappings, server.entities)
    /\ server' = [server EXCEPT !.stage = "configured"]
    /\ UNCHANGED <<tauri_vars, router, db, dsUp, last, inflight>>

FindEntityMapping(entity_name) ==
    /\ server.stage = "configured"
    /\ last' = [via |-> "find_entity_mapping", entity_name |-> entity_name,
                result |-> find_entity_mapping(entity_mappings, server.seed, entity_name)]
    /\ UNCHANGED <<tauri_vars, entity_mappings, server, router, db, dsUp, inflight>>

\* MariaDbDatasource::create up to the statement and the values it binds
MariaDbCreate(item, entity_name) ==
    /\ server.stage = "configured"
    /\ LET valid  == validate_entity(entity_mappings, server.seed, item, entity_name)
           query  == generate_insert_query(entity_mappings, server.seed, entity_name)
           values == entity_to_query_values(entity_mappings, server.seed, item, entity_name)
       IN  last' = [via |-> "create", entity_name |-> entity_name, item |-> item,
                    result |-> IF ~valid.ok THEN valid
                               ELSE IF ~query.ok THEN query
                               ELSE IF ~values.ok THEN values
                               ELSE [ok |-> TRUE, query |-> query.val, values |-> values.val]]
    /\ UNCHANGED <<tauri_vars, entity_mappings, server, router, db, dsUp, inflight>>

\* MariaDbDatasource::update up to the statement and the values it binds
MariaDbUpdate(id, item, entity_name) ==
    /\ server.stage = "configured"
    /\ LET valid  == validate_entity(entity_mappings, server.seed, item, entity_name)
           query  == generate_update_query(entity_mappings, server.seed, entity_name)
           values == prepare_update_values(entity_mappings, server.seed, item, entity_name, id)
       IN  last' = [via |-> "update", entity_name |-> entity_name, item |-> item, id |-> id,
                    result |-> IF ~valid.ok THEN valid
                               ELSE IF ~query.ok THEN query
                               ELSE IF ~values.ok THEN values
                               ELSE [ok |-> TRUE, query |-> query.val, values |-> values.val]]
    /\ UNCHANGED <<tauri_vars, entity_mappings, server, router, db, dsUp, inflight>>

NextMapping ==
    \/ ConfigureEntityMappings
    \/ \E entity_name \in LookupNames : FindEntityMapping(entity_name)
    \/ \E item \in MappingItems, entity_name \in StatementNames :
           MariaDbCreate(item, entity_name)
    \/ \E i \in Ids, item \in MappingItems, entity_name \in StatementNames :
           MariaDbUpdate(IdStr(i), item, entity_name)

SpecMapping == InitMapping /\ [][NextMapping]_vars

---------------------------------------------------------------------------
(* Properties *)

\* the entity table holds `users` alone, with every CRUD endpoint generated
UsersAllCrud ==
    /\ keys(router.entities) = <<S_users>>
    /\ get(router.entities, S_users).endpoints
         = initialize_endpoints([table |-> S_users], Entity(S_users, AllCrud))

IsOk(out, status) == out.tag = "Ok" /\ out.resp.status = status

IsErr(out, kind) == out.tag = "Err" /\ out.kind = kind

\* the last exchange was a Router call that reached a handler of the given kind
Reached(kind) ==
    /\ last.via = "router"
    /\ last.handler # None
    /\ last.handler.val.kind = kind

\* C1: with `users` and all CRUD endpoints on an initially empty backend, after
\* POST users with a body of id i returned 201 with Single(body), the next
\* GET users/i returns 200 with Single of that record and the next GET users
\* returns 200 with a List of length 1.
C1_CreateThenReadAndList ==
    [][ ( /\ UsersAllCrud
          /\ last.via = "router"
          /\ last.req.method = "POST"
          /\ last.before[S_users] = EmptyTable
          /\ last.req.body # None
          /\ last.req.body.val.kind = "json"
          /\ last.out = Ok(ApiResponse(201, default_headers,
                                       Some(Single(last.req.body.val.item)))) )
        => LET item == last.req.body.val.item IN
           /\ (last'.req = ApiRequest("GET", UserPath(item.id), Some(item.id), None)
                 => last'.out = Ok(ApiResponse(200, default_headers, Some(Single(item)))))
           /\ (last'.req = ApiRequest("GET", UsersPath, None, None)
                 => /\ IsOk(last'.out, 200)
                    /\ last'.out.resp.body # None
                    /\ last'.out.resp.body.val.variant = "List"
                    /\ Len(last'.out.resp.body.val.items) = 1) ]_vars

\* C2: DELETE users/i for an id i present in the backend returns 204 without a
\* body, and a GET users/i after it (no create of i in between) returns
\* EntityNotFound.
C2_DeleteThenNotFound ==
    [][ /\ ( /\ UsersAllCrud
             /\ last'.via = "router"
             /\ last'.req.method = "DELETE"
             /\ last'.req.params # None
             /\ last'.before[S_users][last'.req.params.val] # None )
           => last'.out = Ok(ApiResponse(204, default_headers, None))
        /\ ( /\ UsersAllCrud
             /\ last.via = "router"
             /\ last.req.method = "DELETE"
             /\ last.req.params # None
             /\ IsOk(last.out, 204)
             /\ last'.req = ApiRequest("GET", UserPath(last.req.params.val),
                                       Some(last.req.params.val), None) )
           => IsErr(last'.out, "EntityNotFound") ]_vars

\* the update handler ran with an id parameter and a JSON body for an id that
\* the backend does not contain
C3_UpdateOfAbsentId ==
    /\ Reached("update")
    /\ last.req.params # None
    /\ last.req.body # None
    /\ last.req.body.val.kind = "json"
    /\ last.before[last.handler.val.ds][last.req.params.val] = None

\* C3: an update request for an id that the backend does not contain returns
\* EntityNotFound; the datasource's update is not invoked and the backend is
\* unchanged.
C3_UpdateAbsentNoWrite ==
    C3_UpdateOfAbsentId
    => /\ IsErr(last.out, "EntityNotFound")
       /\ last.calls = <<"get_by_id">>
       /\ db = last.before

\* a create or update handler ran with an absent or empty body (the update
\* with its id parameter)
C4_CreateWithoutBody ==
    /\ Reached("create")
    /\ (last.req.body = None \/ last.req.body = Some(BodyEmpty))

C4_UpdateWithoutBody ==
    /\ Reached("update")
    /\ last.req.params # None
    /\ last.req.body = Some(BodyEmpty)

\* C4: a create request, or an update request with an id, whose body is absent
\* or empty returns BadRequest without any datasource call, and the backend is
\* unchanged.
C4_NoBodyIsBadRequest ==
    ( \/ C4_CreateWithoutBody
      \/ (Reached("update") /\ last.req.params # None
            /\ (last.req.body = None \/ last.req.body = Some(BodyEmpty))) )
    => /\ IsErr(last.out, "BadRequest")
       /\ last.calls = <<>>
       /\ db = last.before

SameRequestAgain ==
    /\ last.via = "router"
    /\ last'.via = "router"
    /\ last'.req = last.req
    /\ last'.before = last.before

\* the keys of the endpoint map that the fallback scan matches
FallbackKeys(endpoints, method, entity_name) ==
    {i \in 1..Len(endpoints) :
        contains(endpoints[i].key, entity_name)
            /\ starts_with(endpoints[i].key, DebugMethod(method))}

OnlyUsers == keys(router.entities) = <<S_users>>

\* two consecutive Router calls of the same method on the same backend state,
\* one to /users and one to /Users
UsersInBothCases ==
    /\ OnlyUsers
    /\ last.via = "router"
    /\ last'.via = "router"
    /\ last'.before = last.before
    /\ last'.req.method = last.req.method
    /\ {last.req.path, last'.req.path} = {Slash \o S_users, Slash \o S_Users}

\* C6 as stated: /Users and /users resolve to the same entity and the same
\* handler, and both requests produce the same result.
C6_SameResultInBothCases ==
    [][ UsersInBothCases
        => /\ last'.entity = last.entity
           /\ last'.handler = last.handler
           /\ last'.out = last.out ]_vars

\* /Users reached a handler of `users`
C6_UpperCasePathResolved ==
    /\ OnlyUsers
    /\ last.via = "router"
    /\ last.req.path = Slash \o S_Users
    /\ last.entity = Some(S_users)
    /\ last.handler # None

\* C6 (amended): /Users and /users resolve to the same entity, endpoint key
\* and handler; with a handler selected both requests produce the same
\* result, and with none selected both return EntityNotFound with messages
\* that differ only in the request path they echo.
C6_SameHandlerInBothCases ==
    [][ UsersInBothCases
        => /\ last'.entity = Some(S_users)
           /\ last'.entity = last.entity
           /\ last'.endpoint = last.endpoint
           /\ last'.handler = last.handler
           /\ last.handler # None => last'.out = last.out
           /\ last.handler = None
                => /\ IsErr(last.out, "EntityNotFound")
                   /\ IsErr(last'.out, "EntityNotFound")
                   /\ last'.out.msg = [last.out.msg EXCEPT ![4] = Str(last'.req.path)] ]_vars

\* api_prefix is "/api" and `users` is a key of the entity table
ApiPrefixAndUsers ==
    /\ router.config.api_prefix = Some(Slash \o S_api)
    /\ has(router.entities, S_users)

RequestedName == extract_entity_name(router.config, path_parts(last.req.path))

NoKeyMatches(name) ==
    \A i \in 1..Len(router.entities) : to_lowercase(router.entities[i].key) # name

\* a request for an entity that no key matches ignoring case was routed
C8_UnknownEntityRequested ==
    /\ last.via = "router"
    /\ RequestedName.ok
    /\ NoKeyMatches(RequestedName.name)

\* C8: a request whose entity segment matches no key ignoring case returns
\* EntityNotFound; the message contains the requested name (in lower case, as
\* the router compares it) and every known entity; no handler is selected, no
\* datasource operation is invoked and the backend is unchanged.
C8_UnknownEntityIsNotFound ==
    C8_UnknownEntityRequested
    => /\ IsErr(last.out, "EntityNotFound")
       /\ Mentions(last.out.msg, RequestedName.name)
       /\ \A i \in 1..Len(router.entities) : Mentions(last.out.msg, router.entities[i].key)
       /\ last.entity = None
       /\ last.handler = None
       /\ last.calls = <<>>
       /\ db = last.before

\* the status the transport layer is to give an error kind
ExpectedStatus(kind) ==
    CASE kind = "EntityNotFound"  -> 404
      [] kind = "ValidationError" -> 400
      [] kind = "BadRequest"      -> 400
      [] kind = "DatabaseError"   -> 500
      [] OTHER                    -> 500

\* C10: for every error of the Router the response status is 404 for
\* EntityNotFound, 400 for ValidationError and BadRequest, and 500 for
\* DatabaseError and every other kind, on every set of routes that serves
\* requests.
C10_StatusOfEveryError ==
    (last.via \in {"rocket_adapter", "catch_all"} /\ last.out.tag = "Err")
    => /\ last.resp # None
       /\ last.resp.val.status = ExpectedStatus(last.out.kind)

\* the transport layer answered with a status of 400 or above
ErrorResponse ==
    /\ last.via \in {"rocket_adapter", "catch_all"}
    /\ last.resp # None
    /\ last.resp.val.status >= 400

\* the body is {"error": <message>} with a non-empty message
IsErrorBody(body) ==
    /\ body # None
    /\ body.val.variant = "Json"
    /\ DOMAIN body.val.json = {"error"}
    /\ body.val.json.error # <<>>

\* C11: every response with status 400 or above (datasource failures inside
\* the handlers included) carries a JSON body {"error": <message>} with a
\* non-empty message.
C11_ErrorsCarryErrorBody ==
    ErrorResponse => IsErrorBody(last.resp.val.body)

\* the handler the Router found returned EndpointGenerationError
HandlerFailed ==
    /\ last.via = "router"
    /\ last.handler # None
    /\ IsErr(Invoke(last.handler.val, last.req, last.before, last.up).out,
             "EndpointGenerationError")

\* C17: whenever a handler found by the Router (by a candidate key or by the
\* fallback scan) returns EndpointGenerationError, the Router returns Ok with
\* status 500 and never Err(EndpointGenerationError).
C17_GenerationErrorBecomes500 ==
    HandlerFailed => IsOk(last.out, 500)

\* an update wrote after its get_by_id saw the record, and the record was
\* gone when it wrote
C12_UpdateRacedWithDelete ==
    /\ Reached("update")
    /\ last.calls = <<"get_by_id", "update">>
    /\ last.before[last.handler.val.ds][last.req.params.val] = None

\* C12: the check-then-act of the update handler is not atomic: when a delete
\* removes the record between the update's get_by_id and its write, the write
\* runs against an absent record, changes nothing, and the update returns 200
\* with the submitted item.
C12_LostUpdateReturns200 ==
    C12_UpdateRacedWithDelete
    => /\ last.out = Ok(ApiResponse(200, default_headers,
                                    Some(Single(last.req.body.val.item))))
       /\ db = last.before
       /\ db[last.handler.val.ds][last.req.params.val] = None

\* the request in flight exceeded the timeout
TimedOut == inflight.tag = "task" /\ inflight.timedOut

\* a write of a timed-out request took effect after its 504 response
C13_WriteAfterTimeout ==
    /\ TimedOut
    /\ inflight.done
    /\ inflight.resp = Some(timeout_response)
    /\ db # inflight.before

\* C13: a request that exceeds the 30 s timeout gets exactly one response,
\* 504 with an error body, which the end of the task does not replace; the
\* task is not cancelled, and when it ends the backend is as the dispatch
\* leaves it.
C13_TimeoutGives504 ==
    TimedOut
    => /\ inflight.resp # None
       /\ inflight.resp.val.status = 504
       /\ IsErrorBody(inflight.resp.val.body)
       /\ inflight.responses = 1
       /\ inflight.done
            => db = handle_request(router, inflight.req, inflight.before, dsUp).db

\* C14: a request dispatched to a custom-route handler gets status 200 with
\* an empty body; the handler never aborts the processing of the request.
C14_CustomRouteReturns200 ==
    Reached("custom")
    => last.out = Ok(ApiResponse(200, default_headers, None))

\* the entities of the configuration, advanced and basic
Configured == server.config.entities_advanced \o server.config.entities_basic

\* the datasource map has an entry for the entity name, normalized or exact
HasDatasource(name) ==
    \/ has(normalize_keys(server.datasources), to_lowercase(name))
    \/ has(server.datasources, name)

\* the adapter was built
Built == server.stage \in {"adapter", "serving", "failed"}

\* the adapter was built from a map without an entry for one configured
\* entity, and a request for that entity was routed
C15_SkippedEntityRequested ==
    /\ Built
    /\ last.via = "router"
    /\ router.entities # <<>>
    /\ RequestedName.ok
    /\ \E i \in 1..Len(Configured) :
          /\ to_lowercase(Configured[i].name) = RequestedName.name
          /\ ~HasDatasource(Configured[i].name)

\* C15: an entity without an entry in the datasource map is left out of the
\* entity table; every configured entity with an entry is registered with its
\* endpoints and served; requests for a skipped entity return EntityNotFound.
C15_MissingBackendIsSkipped ==
    Built
    => /\ \A i \in 1..Len(Configured) :
            LET name == Configured[i].name IN
            IF HasDatasource(name)
            THEN /\ has(router.entities, to_lowercase(name))
                 /\ get(router.entities, to_lowercase(name)).endpoints
                      = initialize_endpoints([table |-> to_lowercase(name)],
                                             BasicToEntity(EntityBasic(name)))
                 /\ (last.via # "none" /\ RequestedName.ok
                        /\ RequestedName.name = to_lowercase(name))
                      => last.entity = Some(to_lowercase(name))
            ELSE /\ NoKeyMatches(to_lowercase(name))
                 /\ (last.via # "none" /\ RequestedName.ok
                        /\ RequestedName.name = to_lowercase(name))
                      => /\ IsErr(last.out, "EntityNotFound")
                         /\ last.handler = None
                         /\ last.calls = <<>>

\* C16: when the Datasource Factory fails completely (no connection, or an
\* unsupported database type), startup fails: the Router is not constructed
\* and the server does not start to serve requests.
C16_FactoryFailureStopsStartup ==
    (server.stage # "main" /\ server.db_connection = None)
    => /\ router = None
       /\ server.stage \notin {"adapter", "serving"}

\* the HTTP method of a CRUD operation
MethodOf(kind) ==
    CASE kind = "create" -> "POST"
      [] kind = "read"   -> "GET"
      [] kind = "update" -> "PUT"
      [] kind = "delete" -> "DELETE"
      [] kind = "list"   -> "GET"

\* one of the four candidate keys for the method and the entity key is a
\* registered key of the entity
CandidateRegistered(entity_api, key, method) ==
    first_key(entity_api.endpoints, possible_keys(method, to_lowercase(key))) # None

\* C18: for every registered entity, whatever the letter case of its name,
\* and every CRUD operation enabled for it, one of the four candidate keys the
\* Router builds for the operation's method equals a registered key.
C18_CandidateKeysAreRegistered ==
    \A i \in 1..Len(router.entities) :
        LET e == router.entities[i] IN
        \A j \in 1..Len(e.val.endpoints) :
            e.val.endpoints[j].val.kind # "custom"
            => CandidateRegistered(e.val, e.key, MethodOf(e.val.endpoints[j].val.kind))

\* the canonical key of a CRUD operation of an entity, and the key with
\* "api/" before the entity name
CanonicalKey(kind, name) ==
    DebugMethod(MethodOf(kind)) \o Colon \o name
        \o (IF kind \in {"read", "update", "delete"} THEN Slash \o S_id ELSE <<>>)

ApiKey(kind, name) ==
    DebugMethod(MethodOf(kind)) \o Colon \o S_api \o Slash \o name
        \o (IF kind \in {"read", "update", "delete"} THEN Slash \o S_id ELSE <<>>)

\* C19: after initialize_endpoints every enabled CRUD operation is registered
\* under its canonical key and under the same key with "api/" before the
\* entity name, both mapped to the same handler.
C19_EveryOperationHasTwoKeys ==
    \A i \in 1..Len(router.entities) :
        LET endpoints == router.entities[i].val.endpoints IN
        \A j \in 1..Len(endpoints) :
            LET h == endpoints[j].val IN
            h.kind # "custom"
            => /\ has(endpoints, CanonicalKey(h.kind, h.entity))
               /\ has(endpoints, ApiKey(h.kind, h.entity))
               /\ get(endpoints, CanonicalKey(h.kind, h.entity)) = h
               /\ get(endpoints, ApiKey(h.kind, h.entity)) = h

\* C20 case: the path has no non-empty segment, or it is the prefix alone
C20_NoEntitySegment ==
    /\ last.via = "router"
    /\ \/ path_parts(last.req.path) = <<>>
       \/ /\ router.config.api_prefix # None
          /\ path_parts(last.req.path)
               = <<trim_end_matches(trim_start_matches(router.config.api_prefix.val, "/"), "/")>>

\* the path was the prefix segment alone
C20_PrefixAlone ==
    /\ C20_NoEntitySegment
    /\ path_parts(last.req.path) = <<S_api>>

\* C20: the Router returns ValidationError, resolving no entity and calling no
\* handler, when the path has no non-empty segment and when a prefix is
\* configured and the path is the prefix segment alone.
C20_NoEntitySegmentIsInvalid ==
    C20_NoEntitySegment
    => /\ IsErr(last.out, "ValidationError")
       /\ last.entity = None
       /\ last.handler = None
       /\ last.calls = <<>>
       /\ db = last.before

\* the CRUD keys of an entity: what initialize_endpoints registers before the
\* custom routes
CrudKeys(entity_api, entity) ==
    keys(initialize_endpoints(entity_api.datasource,
             [entity EXCEPT !.endpoints.custom_routes = <<>>]))

CustomKey(entity, custom_route) ==
    DebugMethod(custom_route.method) \o Colon \o entity.name \o custom_route.path

\* the index of the last custom route registered under the key of route k
LastWithKey(entity, k) ==
    LET routes == entity.endpoints.custom_routes IN
    CHOOSE j \in k..Len(routes) :
        /\ CustomKey(entity, routes[j]) = CustomKey(entity, routes[k])
        /\ \A l \in (j+1)..Len(routes) :
               CustomKey(entity, routes[l]) # CustomKey(entity, routes[k])

\* some custom route of the entity has the key of an earlier registration
Collides(entity_api, entity) ==
    LET routes == entity.endpoints.custom_routes
        crud   == CrudKeys(entity_api, entity) IN
    \E k \in 1..Len(routes) :
        \/ \E i \in 1..Len(crud) : crud[i] = CustomKey(entity, routes[k])
        \/ \E j \in 1..(k-1) : CustomKey(entity, routes[j]) = CustomKey(entity, routes[k])

\* a request was dispatched to a key that a CRUD endpoint and a custom route
\* both registered
C21_CollidingKeyRequested ==
    /\ Reached("custom")
    /\ \E i \in 1..Len(router.config.entities_advanced) :
           LET entity == router.config.entities_advanced[i] IN
           /\ has(router.entities, entity.name)
           /\ \E j \in 1..Len(CrudKeys(get(router.entities, entity.name), entity)) :
                  CrudKeys(get(router.entities, entity.name), entity)[j] = last.endpoint.val

\* C21: when two registrations for one entity give the same key, the key maps
\* after initialize_endpoints to the handler registered last (custom routes
\* after CRUD endpoints, later custom routes after earlier ones) and the
\* second registration adds no key.
C21_LastRegistrationWins ==
    \A i \in 1..Len(router.config.entities_advanced) :
        LET entity == router.config.entities_advanced[i] IN
        (has(router.entities, entity.name)
         /\ Collides(get(router.entities, entity.name), entity))
        => LET entity_api == get(router.entities, entity.name)
               routes     == entity.endpoints.custom_routes
               crud       == CrudKeys(entity_api, entity)
           IN  /\ \A k \in 1..Len(routes) :
                      /\ has(entity_api.endpoints, CustomKey(entity, routes[k]))
                      /\ get(entity_api.endpoints, CustomKey(entity, routes[k])).kind = "custom"
                      /\ get(entity_api.endpoints, CustomKey(entity, routes[k])).route
                             = routes[LastWithKey(entity, k)]
               /\ Len(entity_api.endpoints)
                      = Cardinality({crud[j] : j \in 1..Len(crud)}
                                    \cup {CustomKey(entity, routes[k]) : k \in 1..Len(routes)})
               /\ \A a, b \in 1..Len(entity_api.endpoints) :
                      entity_api.endpoints[a].key = entity_api.endpoints[b].key => a = b

\* C22: after ApiAdapter::new no two keys of the entity table are equal
\* ignoring case: of several configured entities whose names collide
\* case-insensitively exactly one is registered.
C22_EntityKeysDifferIgnoringCase ==
    \A a, b \in 1..Len(router.entities) :
        to_lowercase(router.entities[a].key) = to_lowercase(router.entities[b].key)
        => a = b

\* the first index of a sequence at which the test holds, 0 if none
FirstIndex(s, Test(_)) ==
    IF \E i \in 1..Len(s) : Test(s[i])
    THEN CHOOSE i \in 1..Len(s) : Test(s[i]) /\ \A j \in 1..(i - 1) : ~Test(s[j])
    ELSE 0

\* the mapping table holds the mappings of the configured entities
MappingsConfigured == server.stage = "configured"

\* C23: the primary key of the TableMapping built for an entity is the first
\* field named `id` if one exists, else the first field that is both unique
\* and required, else the literal `id`.
C23_PrimaryKeyIsDetected ==
    MappingsConfigured
    => \A i \in 1..Len(server.entities) :
           LET entity     == server.entities[i]
               named_id(f) == f.name = "id"
               marked(f)   == f.unique /\ f.required
               byName      == FirstIndex(entity.fields, named_id)
               byMark      == FirstIndex(entity.fields, marked)
           IN  get(entity_mappings, normalize_entity_name(entity.name)).primary_key
                   = IF byName # 0 THEN entity.fields[byName].name
                     ELSE IF byMark # 0 THEN entity.fields[byMark].name
                     ELSE "id"

\* the position of a key word in the text of a statement
PositionOf(query, text) == CHOOSE i \in 1..Len(query) : query[i] = Sql(text)

IsQuoted(token) == "quoted" \in DOMAIN token

\* the columns of the SET list of an UPDATE statement, in order
SetColumns(query) ==
    LET between == SubSeq(query, PositionOf(query, "SET") + 1,
                          PositionOf(query, "WHERE") - 1)
        quoted  == SelectSeq(between, IsQuoted)
    IN  [i \in 1..Len(quoted) |-> quoted[i].quoted]

\* the number of placeholders of a statement
Placeholders(query) ==
    Cardinality({i \in 1..Len(query) : query[i] = Placeholder})

\* the last operation built a statement and its values
StatementBuilt(via) ==
    /\ "result" \in DOMAIN last
    /\ last.via = via
    /\ last.result.ok

\* the mapping the last operation worked with
LastMapping == find_entity_mapping(entity_mappings, server.seed, last.entity_name).val

\* C24: for every entity mapping, also with field names that differ from the
\* column names, the SET list of the UPDATE statement never contains the
\* primary-key column, and the values hold one value per mapped field except
\* the primary key, followed by the id for the WHERE clause.
C24_UpdateLeavesPrimaryKeyOut ==
    StatementBuilt("update")
    => LET mapping == LastMapping
           set     == SetColumns(last.result.query)
           isKey(f) == f.column_name = mapping.primary_key
           others  == SelectSeq(mapping.fields, LAMBDA f : ~isKey(f))
       IN  /\ \A k \in 1..Len(set) : set[k] # mapping.primary_key
           /\ last.result.values
                = [k \in 1..Len(others) |-> get_or_null(last.item.map, others[k].field_name)]
                  \o <<Value_String(last.id)>>

\* the columns of an INSERT statement, in order
InsertColumns(query) ==
    LET between == SubSeq(query, PositionOf(query, "(") + 1,
                          PositionOf(query, ") VALUES (") - 1)
        quoted  == SelectSeq(between, IsQuoted)
    IN  [i \in 1..Len(quoted) |-> quoted[i].quoted]

\* the value the item has for the field mapped to a column
ValueOfColumn(mapping, item, column) ==
    LET field == mapping.fields[CHOOSE i \in 1..Len(mapping.fields) :
                                    mapping.fields[i].column_name = column]
    IN  get_or_null(item.map, field.field_name)

\* an UPDATE for a mapping with column names of its own, with an item that
\* lacks a key, was built
C25_UpdateWithMissingKey ==
    /\ StatementBuilt("update")
    /\ Len(SetColumns(last.result.query)) >= 2
    /\ \E i \in 1..Len(LastMapping.fields) :
           /\ LastMapping.fields[i].field_name # LastMapping.fields[i].column_name
           /\ LastMapping.fields[i].field_name \notin DOMAIN last.item.map

\* C25: the values extracted for a statement match its placeholders position
\* by position: for INSERT the k-th value is the value of the field whose
\* column is the k-th column (Null when the key is missing), for UPDATE the
\* k-th value belongs to the k-th SET column and the last value is the id;
\* the number of values equals the number of placeholders.
C25_ValuesMatchPlaceholders ==
    /\ StatementBuilt("create")
       => LET columns == InsertColumns(last.result.query) IN
          /\ Len(last.result.values) = Placeholders(last.result.query)
          /\ Len(last.result.values) = Len(columns)
          /\ \A k \in 1..Len(columns) :
                 last.result.values[k] = ValueOfColumn(LastMapping, last.item, columns[k])
    /\ StatementBuilt("update")
       => LET set == SetColumns(last.result.query) IN
          /\ Len(last.result.values) = Placeholders(last.result.query)
          /\ Len(last.result.values) = Len(set) + 1
          /\ \A k \in 1..Len(set) :
                 last.result.values[k] = ValueOfColumn(LastMapping, last.item, set[k])
          /\ last.result.values[Len(set) + 1] = Value_String(last.id)

\* the name is the entity's name in some letter case, with or without
\* surrounding white space
IsNameOf(name, entity) ==
    normalize_entity_name(name) = normalize_entity_name(entity.name)

\* the name is the entity's table name in some letter case
IsTableNameOf(name, entity) ==
    to_lowercase(name) = to_lowercase(create_table_mapping(entity).table_name)

\* C26: after configure_entity_mappings a lookup by an entity's name (any
\* letter case, surrounding white space, or the exact original), or by its
\* table name in any letter case, returns the mapping of that entity, also
\* when one entity's table name equals another entity's name; a name of none
\* of these forms yields no mapping.
C26_LookupFindsTheSameEntity ==
    (MappingsConfigured /\ last.via = "find_entity_mapping")
    => LET entities == server.entities
           named    == {i \in 1..Len(entities) : IsNameOf(last.entity_name, entities[i])}
           tabled   == {i \in 1..Len(entities) : IsTableNameOf(last.entity_name, entities[i])}
       IN  /\ \A i \in named : last.result = Some(create_table_mapping(entities[i]))
           /\ named = {}
              => \A i \in tabled : last.result = Some(create_table_mapping(entities[i]))
           /\ (named = {} /\ tabled = {}) => last.result = None

\* two consecutive Router calls with the same method and the same entity
\* segment
SameEntitySegment ==
    /\ last.via = "router"
    /\ last'.via = "router"
    /\ last'.req.method = last.req.method
    /\ LET a == extract_entity_name(router.config, path_parts(last.req.path))
           b == extract_entity_name(router.config, path_parts(last'.req.path))
       IN  a.ok /\ b.ok /\ a.name = b.name

\* the exchange resolved an entity that has the list endpoint
ListEnabled(exchange) ==
    /\ exchange.entity # None
    /\ LET endpoints == get(router.entities, exchange.entity.val).endpoints IN
       \E j \in 1..Len(endpoints) : endpoints[j].val.kind = "list"

\* the two calls differ in the segments after the entity segment
C27_TrailingSegmentsDiffer ==
    /\ last.via = "router"
    /\ last.req.method = "GET"
    /\ last.req.path = UserPath(1)
    /\ Reached("list")

\* the handler depends on the method and the entity segment only
C27_SameHandlerStep ==
    SameEntitySegment
    => /\ last'.entity = last.entity
       /\ last'.endpoint = last.endpoint
       /\ last'.handler = last.handler

\* every GET for an entity with the list endpoint goes to the list handler
C27_ListAnswersStep ==
    (last'.via = "router" /\ last'.req.method = "GET" /\ ListEnabled(last'))
    => (last'.handler # None /\ last'.handler.val.kind = "list")

\* C27: the handler that dispatch selects depends only on the request method
\* and the entity segment of the path: requests that differ only in the
\* segments after the entity segment go to the same handler, which for an
\* entity with the list endpoint enabled is the list handler for every GET.
C27_HandlerIgnoresTrailingSegments ==
    [][ C27_SameHandlerStep /\ C27_ListAnswersStep ]_vars

\* the last exchange arrived over HTTP
OverHttp == last.via \in {"rocket_adapter", "catch_all"}

\* a PUT with a JSON body for users/1 arrived over HTTP and reached the
\* update handler
C28_PutOverHttp ==
    /\ OverHttp
    /\ last.req.method = "PUT"
    /\ last.req.path = UserPath(1)
    /\ last.req.body # None
    /\ last.req.body.val.kind = "json"
    /\ last.handler # None
    /\ last.handler.val.kind = "update"

\* C28: every ApiRequest built by the transport layer has no parameters and
\* nothing adds an `id` entry, so every request that arrives over HTTP and is
\* dispatched to a read, update or delete handler returns ValidationError
\* (ID parameter missing) and never calls get_by_id, update or delete.
C28_HttpRequestsHaveNoId ==
    OverHttp
    => /\ last.req.params = None
       /\ ParamId(last.req) = None
       /\ (last.handler # None /\ last.handler.val.kind \in {"read", "update", "delete"})
          => /\ last.out = Err("ValidationError", <<Lit("ID parameter missing")>>)
             /\ last.calls = <<>>
             /\ db = last.before
       /\ \A k \in 1..Len(last.calls) : last.calls[k] \notin {"get_by_id", "update", "delete"}

\* the configured entity registered under a key of the entity table
EntityConfigOf(key) ==
    LET advanced == router.config.entities_advanced
        basic    == router.config.entities_basic IN
    IF \E i \in 1..Len(advanced) : advanced[i].name = key
    THEN advanced[CHOOSE i \in 1..Len(advanced) : advanced[i].name = key]
    ELSE BasicToEntity(basic[CHOOSE i \in 1..Len(basic) : to_lowercase(basic[i].name) = key])

\* the flag of a write operation in the configuration of an entity
Generates(entity, op) ==
    CASE op = "create" -> entity.endpoints.generate_create
      [] op = "update" -> entity.endpoints.generate_update
      [] op = "delete" -> entity.endpoints.generate_delete

WriteOps == {"create", "update", "delete"}

\* a complete request for a write operation the entity has switched off
C29_DisabledWriteRequested ==
    /\ last.via = "router"
    /\ last.entity # None
    /\ last.before[S_users][1] # None
    /\ \/ /\ last.req.method = "DELETE"
          /\ last.req.params = Some(1)
          /\ ~Generates(EntityConfigOf(last.entity.val), "delete")
       \/ /\ last.req.method = "PUT"
          /\ last.req.params = Some(1)
          /\ last.req.body = Some(BodyJson([id |-> 1, name |-> "b"]))
          /\ ~Generates(EntityConfigOf(last.entity.val), "update")

\* C29: a disabled write operation is never executed: for an entity without
\* custom routes whose generate_create (generate_update, generate_delete) is
\* false, no request to the Router invokes the datasource's create (update,
\* delete) for that entity, and such requests leave the backend unchanged.
C29_DisabledWriteNeverRuns ==
    (/\ last.via = "router"
     /\ last.entity # None
     /\ EntityConfigOf(last.entity.val).endpoints.custom_routes = <<>>)
    => \A op \in WriteOps :
           ~Generates(EntityConfigOf(last.entity.val), op)
           => /\ \A k \in 1..Len(last.calls) : last.calls[k] # op
              /\ last.req.method = MethodOf(op) => db = last.before
              /\ last.handler # None => last.handler.val.kind # op

\* a start_api_server (also the one inside restart_api_server) passes its
\* check of SERVER_RUNNING
StartChecks ==
    \E c \in 1..MaxCommands : commands[c].pc = "check" /\ commands'[c] # commands[c]

\* C30: at most one API server is launched per running period: a server thread
\* is spawned only when no previously spawned thread is still serving, and a
\* start_api_server call made while SERVER_RUNNING is true returns 'Server is
\* already running' without spawning a thread or resetting the metrics.
C30_OneServerAtATime ==
    [][ /\ Len(threads') > Len(threads)
           => \A t \in 1..Len(threads) : threads[t] # "serving"
        /\ (StartChecks /\ SERVER_RUNNING)
           => /\ last'.result = Err("Command", <<Lit("Server is already running")>>)
              /\ threads' = threads
              /\ REQUEST_COUNT' = REQUEST_COUNT ]_vars

====
